---------------------------- MODULE Spec2Model ----------------------------
(***************************************************************************)
(* Model of the 2-IMMERSE layout service: the layout packer (LayoutPacker, *)
(* PackerUtils), the layout generator and manager (LayoutManager.ts) and   *)
(* the component life cycle driven by transactions (DMAppController,      *)
(* Transaction, DMApp).                                                    *)
(*                                                                         *)
(* Numbers.  The service computes with JavaScript doubles.  Lengths are    *)
(* modelled in fixed point: one unit is 1/PX of a pixel, a product with a  *)
(* fraction is truncated to that resolution.  Pixel inputs are integral,  *)
(* so the reductions 0.7^k (k <= 4) are exact.  Areas are kept exactly as  *)
(* three-limb numbers in base PX.  Sizes are in "px" mode only; the        *)
(* "inches" and "percent" branches of the packer are outside the model.    *)
(***************************************************************************)
EXTENDS Integers, Sequences, FiniteSets, TLC

\* fixed-point resolution: units per pixel
PX == 100 * 100

\* With([x \in {v} |-> e]) is e with x standing for the value v
With(f) == f[CHOOSE x \in DOMAIN f : TRUE]
\* ------------------------------------------------------------------------
\* arithmetic on fixed-point lengths
\* ------------------------------------------------------------------------
Abs(x) == IF x < 0 THEN -x ELSE x

Max(a, b) == IF a >= b THEN a ELSE b

Min(a, b) == IF a <= b THEN a ELSE b

\* quotient rounded towards zero, as a double product cut at the resolution
TDiv(a, b) == IF (a >= 0) = (b > 0) THEN Abs(a) \div Abs(b) ELSE -(Abs(a) \div Abs(b))

\* Math.trunc on a length: whole pixels, towards zero
Trunc(x) == TDiv(x, PX) * PX

\* Math.round on a length: nearest whole pixel, halves up
Round(x) == ((2 * x + PX) \div (2 * PX)) * PX

Px(n) == n * PX

\* x / 2
Half(x) == TDiv(x, 2)

\* a reduction factor 0.7^e7 * 0.8^e8 (SingleReductionRate, ReductionRate)
Reduction(e7, e8) == [e7 |-> e7, e8 |-> e8]

NoReduction == Reduction(0, 0)

RECURSIVE TimesPow(_, _, _)
TimesPow(x, num, e) == IF e = 0 THEN x ELSE TimesPow(TDiv(x * num, 10), num, e - 1)

\* x * reduction
Scale(x, red) == TimesPow(TimesPow(x, 7, red.e7), 8, red.e8)

\* aspect ratio height/width as the fraction n/d; n = 0 is PackerUtils.noAspect
NoAspect == [n |-> 0, d |-> 1]

HasAspect(a) == a.n # 0

\* x * aspect and x / aspect
MulA(x, a) == TDiv(x * a.n, a.d)

DivA(x, a) == TDiv(x * a.d, a.n)

\* exact area of w x h as <<sign, l2, l1, l0>>, limbs in base PX
AreaL(w, h) ==
  LET aw == Abs(w)
      ah == Abs(h)
      wq == aw \div PX
      wr == aw % PX
      hq == ah \div PX
      hr == ah % PX
  IN
  With([l0 \in {wr * hr} |->
  With([l1 \in {wq * hr + wr * hq + (l0 \div PX)} |->
  LET l2 == wq * hq + (l1 \div PX)
      sg == IF w = 0 \/ h = 0 THEN 0 ELSE IF (w < 0) = (h < 0) THEN 1 ELSE -1
  IN
  <<sg, l2, l1 % PX, l0 % PX>>])])

ZeroArea == <<0, 0, 0, 0>>

\* magnitude comparison of two limb triples: -1, 0, 1
CmpMag(a, b) ==
  IF a[2] # b[2] THEN (IF a[2] < b[2] THEN -1 ELSE 1)
  ELSE IF a[3] # b[3] THEN (IF a[3] < b[3] THEN -1 ELSE 1)
  ELSE IF a[4] # b[4] THEN (IF a[4] < b[4] THEN -1 ELSE 1)
  ELSE 0

\* comparison of two signed areas: -1, 0, 1
CmpArea(a, b) ==
  IF a[1] # b[1] THEN (IF a[1] < b[1] THEN -1 ELSE 1)
  ELSE IF a[1] = 0 THEN 0
  ELSE IF a[1] = 1 THEN CmpMag(a, b)
  ELSE CmpMag(b, a)

\* sum of two non-negative areas
AddArea(a, b) ==
  IF a[1] = 0 THEN b ELSE IF b[1] = 0 THEN a ELSE LET l0 == a[4] + b[4]
                                                  IN
                                                  With([l1 \in {a[3] + b[3] + (l0 \div PX)} |->
                                                  LET l2 == a[2] + b[2] + (l1 \div PX)
                                                  IN
                                                  <<1, l2, l1 % PX, l0 % PX>>])

\* ------------------------------------------------------------------------
\* globals.ts
\* ------------------------------------------------------------------------
MinDimension == 0

MaxIterations == 5

absoluteMinSize == [width |-> Px(1), height |-> Px(1)]

\* PackerUtils.minRect
minRect == [width |-> Px(MinDimension), height |-> Px(MinDimension)]

\* the "don't care" dimension, -1 pixel
DontCare == -PX

NoId == "none"

\* ------------------------------------------------------------------------
\* Array.prototype.sort as V8 runs it on arrays of at most ten elements
\* (insertion sort: an element moves left past every neighbour that the
\* comparator orders after it), and the underscore list helpers
\* ------------------------------------------------------------------------
SortBy(s, After(_, _)) ==
  LET RECURSIVE Place(_, _, _)
      Place(acc, e, j) ==
        IF j >= 1 /\ After(acc[j], e)
        THEN Place(acc, e, j - 1)
        ELSE SubSeq(acc, 1, j) \o <<e>> \o SubSeq(acc, j + 1, Len(acc))
      RECURSIVE Run(_, _)
      Run(acc, i) == IF i > Len(s) THEN acc ELSE Run(Place(acc, s[i], Len(acc)), i + 1)
  IN
  Run(<<>>, 1)

Range(s) == {s[i] : i \in DOMAIN s}

Contains(s, x) == \E i \in DOMAIN s : s[i] = x

\* the elements of s that satisfy Keep, in order
Filter(s, Keep(_)) == SelectSeq(s, Keep)

RECURSIVE Uniq(_)
Uniq(s) ==
  IF s = <<>> THEN <<>>
  ELSE With([r \in {Uniq(SubSeq(s, 1, Len(s) - 1))} |->
       IF Contains(r, s[Len(s)]) THEN r ELSE Append(r, s[Len(s)])])

\* _.union, _.difference on lists
Union(a, b) == Uniq(a \o b)

Difference(a, b) == SelectSeq(a, LAMBDA x : ~Contains(b, x))

\* _.pluck(list, "componentId")
Ids(rs) == [i \in DOMAIN rs |-> rs[i].componentId]

\* index of the first element satisfying P, 0 if none
FirstIdx(s, P(_)) ==
  IF \E i \in DOMAIN s : P(s[i]) THEN CHOOSE i \in DOMAIN s : P(s[i]) /\ \A j \in 1..(i - 1) : ~P(s[j]) ELSE 0

\* ------------------------------------------------------------------------
\* PackerUtils: sizes
\* ------------------------------------------------------------------------
toPixelResolution(size, defaultval) ==
  [width  |-> IF size.width = DontCare THEN defaultval.width ELSE size.width,
   height |-> IF size.height = DontCare THEN defaultval.height ELSE size.height]

getAspectCorrectedComponentSize(width, height, margin, aspect, boundingW, boundingH) ==
  IF ~HasAspect(aspect) THEN [width |-> width, height |-> height]
  ELSE LET m == 2 * margin
       IN
       IF aspect.n <= aspect.d
       THEN With([h1 \in {MulA(width, aspect)} |->
            LET h == IF h1 + m > boundingH THEN height - m ELSE h1
                w == IF h1 + m > boundingH THEN DivA(h, aspect) ELSE width
            IN
            [width |-> Trunc(w), height |-> Trunc(h)]])
       ELSE With([w1 \in {DivA(height, aspect)} |->
            LET w == IF w1 + m > boundingW THEN width - m ELSE w1
                h == IF w1 + m > boundingW THEN MulA(w, aspect) ELSE height
            IN
            [width |-> Trunc(w), height |-> Trunc(h)]])

correctedSize(width, height, margin, aspect, boundingwidth, boundingheight) ==
  With([size \in {getAspectCorrectedComponentSize(width - margin, height - margin, margin, aspect,
                                                  boundingwidth, boundingheight)} |->
  [width |-> size.width + margin, height |-> size.height + margin]])

rectSize(constraint, bbox) ==
  LET minsize == toPixelResolution(constraint.minSize, minRect)
  IN
  With([pixels \in {toPixelResolution(constraint.prefSize, minsize)} |->
  correctedSize(pixels.width, pixels.height, constraint.margin, constraint.aspect,
                bbox.boundingWidth, bbox.boundingHeight)])

meetsMinReq(rect, minSz) ==
  With([minsize \in {toPixelResolution(minSz, minRect)} |->
  /\ ~(rect.width > 0 /\ rect.width < minsize.width)
  /\ ~(rect.height > 0 /\ rect.height < minsize.height)])

directed_aspect_correct(width, height, aspect, margin, primaryDir) ==
  LET m == 2 * margin
  IN
  With([wh \in {IF primaryDir = "width"
                THEN With([h1 \in {MulA(width - m, aspect)} |->
                     IF h1 + m > height THEN <<DivA(height - m, aspect), height - m>>
                     ELSE <<width - m, h1>>])
                ELSE With([w1 \in {DivA(height - m, aspect)} |->
                     IF w1 + m > width THEN <<width - m, MulA(width - m, aspect)>>
                     ELSE <<w1, height - m>>])} |->
  [width |-> Trunc(wh[1] + m), height |-> Trunc(wh[2] + m)]])

directed_aspect_correct_(width, height, aspect, margin, primaryDir, minsize) ==
  LET m == 2 * margin
  IN
  With([wh \in {IF primaryDir = "width"
                THEN With([h1 \in {MulA(width - m, aspect)} |->
                     IF h1 + m > height THEN <<DivA(height - m, aspect), height - m>>
                     ELSE <<width - m, h1>>])
                ELSE With([w1 \in {DivA(height - m, aspect)} |->
                     IF w1 + m > width THEN <<width - m, MulA(width - m, aspect)>>
                     ELSE IF w1 < minsize.width
                          THEN <<minsize.width - m, MulA(minsize.width - m, aspect)>>
                          ELSE <<w1, height - m>>])} |->
  [width |-> Trunc(wh[1] + m), height |-> Trunc(wh[2] + m)]])

directed_aspect_correct_no_check(width, height, aspect, margin, dir) ==
  LET m == 2 * margin
      w == IF dir = "width" THEN width - m ELSE DivA(height - m, aspect)
      h == IF dir = "width" THEN MulA(width - m, aspect) ELSE height - m
  IN
  [width |-> Trunc(w + m), height |-> Trunc(h + m)]

\* ------------------------------------------------------------------------
\* PackerUtils: ordering of rectangles
\* ------------------------------------------------------------------------
area(rect) == AreaL(rect.width, rect.height)

largerEqual(box1, box2) ==
  With([c \in {CmpArea(area(box1), area(box2))} |->
  IF c < 0 THEN 1 ELSE IF c > 0 THEN -1
  ELSE IF box1.width < box2.width THEN 1 ELSE IF box1.width > box2.width THEN -1
  ELSE IF box1.height < box2.height THEN 1 ELSE IF box1.height = box2.height THEN 0 ELSE -1])

larger(box1, box2) ==
  With([r \in {largerEqual(box1, box2)} |->
  IF r = 0 THEN -1 ELSE r])

topleft(box1, box2) ==
  IF box1.y0 > box2.y0 THEN 1 ELSE IF box1.y0 < box2.y0 THEN -1
  ELSE IF box1.x0 > box2.x0 THEN 1 ELSE -1

largerDimArea(box1, box2) ==
  IF box1.width < box2.width THEN 1 ELSE                                        IF box1.width > box2.width THEN -1
                                         ELSE With([c \in {CmpArea(area(box1), area(box2))} |->
                                                   IF c < 0 THEN 1 ELSE IF c > 0 THEN -1
                                              ELSE IF box1.height < box2.height THEN 1 ELSE IF box1.height > box2.height THEN -1 ELSE 0])

smaller(box1, box2) ==
  IF box1.width < box2.width THEN -1 ELSE                                         IF box1.width > box2.width THEN 1
                                          ELSE IF box1.height < box2.height THEN -1 ELSE                                                IF box1.height > box2.height THEN 1
                                                                                         ELSE LET c == CmpArea(area(box1), area(box2))
                                                                                              IN
                                                                                              c

_larger(box1, box2) == -smaller(box1, box2)

largerAreaEqual(box1, box2) == -CmpArea(area(box1), area(box2))

larger_first(box1, box2) ==
  With([r \in {largerEqual(box1, box2)} |->
  IF r # 0 THEN r ELSE topleft(box1, box2)])

larger_tl(box1, box2) ==
  With([r \in {largerAreaEqual(box1, box2)} |->
  IF r # 0 THEN r ELSE topleft(box1, box2)])

smaller_tl(box1, box2) ==
  With([r \in {smaller(box1, box2)} |->
  IF r # 0 THEN r ELSE topleft(box1, box2)])

setUndefinedLegLength(node, parentRect, red, which, minSize, margin) ==
  With([dim \in {Scale(parentRect[which], red) - 2 * margin} |->
  With([leg \in {Scale(node[which], red) - 2 * margin} |->
  IF CmpArea(area(node), area(parentRect)) > 0
  THEN (IF leg >= minSize[which] THEN leg ELSE dim)
  ELSE (IF dim >= minSize[which] THEN dim ELSE leg)])])

\* _.findWhere(trees, {regionId: name}), else {deviceId: name}; 0 if neither
FindTree(trees, name) ==
  With([byRegion \in {FirstIdx(trees, LAMBDA t : t.regionId = name)} |->
  IF byRegion # 0 THEN byRegion ELSE FirstIdx(trees, LAMBDA t : t.deviceId = name)])

RECURSIVE Flatten(_)
Flatten(ss) == IF ss = <<>> THEN <<>> ELSE Head(ss) \o Flatten(Tail(ss))

prepareRects(rects, trees, areaFirst) ==
  LET names == Uniq(Flatten([i \in DOMAIN rects |-> rects[i].constraints.valid]))
      boxes(name) == SelectSeq(rects, LAMBDA r : Contains(r.constraints.valid, name))
      RECURSIVE Take(_, _, _, _)
      Take(bs, t, used, i) ==
        IF i > Len(bs) THEN bs
        ELSE With([rsize \in {rectSize(bs[i].constraints, t)} |->
             With([used2 \in {AddArea(used, AreaL(rsize.width, rsize.height))} |->
             IF CmpArea(used2, AreaL(t.width, t.height)) > 0 THEN SubSeq(bs, 1, i - 1)
             ELSE Take(bs, t, used2, i + 1)])])
      boxRects(name) ==
        With([ti \in {FindTree(trees, name)} |->
        IF ti = 0 THEN <<>>
        ELSE LET t == trees[ti]
             IN
             SortBy(Take(boxes(name), t, ZeroArea, 1),
                    LAMBDA a, b : IF areaFirst
                                  THEN larger(rectSize(a.constraints, t), rectSize(b.constraints, t)) > 0
                                  ELSE largerDimArea(rectSize(a.constraints, t), rectSize(b.constraints, t)) > 0)])
  IN
  Uniq(Flatten([i \in DOMAIN names |-> boxRects(names[i])]))

\* the comparison sortRects sorts with: priority first, then larger
ByPriorityLarger(a, b, region) ==
  IF a.constraints.priority < b.constraints.priority THEN 1
  ELSE IF a.constraints.priority > b.constraints.priority THEN -1
  ELSE larger(rectSize(a.constraints, region), rectSize(b.constraints, region))

\* the comparison prioritizeRects sorts with: priority first, then _larger
ByPriority_Larger(a, b, region) ==
  IF a.constraints.priority < b.constraints.priority THEN 1
  ELSE IF a.constraints.priority > b.constraints.priority THEN -1
  ELSE _larger(rectSize(a.constraints, region), rectSize(b.constraints, region))

ResetDontCare(r) ==
  [r EXCEPT !.width = IF r.constraints.prefSize.width = DontCare THEN DontCare ELSE @,
            !.height = IF r.constraints.prefSize.height = DontCare THEN DontCare ELSE @]

sortRects(rects, packingRegions, byArea) ==
  With([sorted \in {SortBy(rects, LAMBDA a, b : ByPriorityLarger(a, b, packingRegions[1]) > 0)} |->
  With([toBePacked \in {prepareRects(sorted, packingRegions, byArea)} |->
  LET all == Union(toBePacked, Difference(sorted, toBePacked))
  IN
  [i \in DOMAIN all |-> ResetDontCare(all[i])]])])

prioritizeRects(rects, packingRegions) ==
  SortBy(rects, LAMBDA a, b : ByPriority_Larger(a, b, packingRegions[1]) > 0)

computeFillSpace(nodelist) ==
  LET RECURSIVE Sum(_)
      Sum(i) == IF i = 0 THEN ZeroArea ELSE AddArea(Sum(i - 1), area(nodelist[i]))
  IN
  Sum(Len(nodelist))

regionSpace(regionlist) ==
  LET RECURSIVE Sum(_)
      Sum(i) == IF i = 0 THEN ZeroArea
                ELSE AddArea(Sum(i - 1), AreaL(regionlist[i].boundingWidth, regionlist[i].boundingHeight))
  IN
  Sum(Len(regionlist))

\* computeWhiteSpace(nodelist, regionlist) > 0
hasWhiteSpace(nodelist, regionlist) == CmpArea(regionSpace(regionlist), computeFillSpace(nodelist)) > 0

\* ------------------------------------------------------------------------
\* PackerUtils: constraints, anchors, fit
\* ------------------------------------------------------------------------
\* toPixelResolution with the aspect argument
toPixelResolutionA(size, defaultval, aspect) ==
  With([p \in {toPixelResolution(size, defaultval)} |->
  IF ~HasAspect(aspect) THEN p
  ELSE IF size.width = 0 THEN [p EXCEPT !.width = Trunc(DivA(p.height, aspect))]
  ELSE [p EXCEPT !.height = Max(p.height, Trunc(MulA(p.width, aspect)))]])

\* Util.isEqualwithPrecision(height / width, aspect, 0.001)
aspectMatches(width, height, aspect) ==
  LET num == Abs(height * aspect.d - aspect.n * width)
      rhs == width * aspect.d
  IN
  /\ width > 0
  /\ \/ num < rhs \div 1000
     \/ num = rhs \div 1000 /\ rhs % 1000 > 0

\* the constraints in force on a node: communal or personal
resolveConstraints(node, mixedGroup, rect) ==
  IF mixedGroup /\ ~node.communal THEN rect.personalconstraints ELSE rect.constraints

isAnchored(constraints) == constraints.defined /\ constraints.hasAnchor

hasAnchor(constraints, anchor) == anchor \in constraints.anchor

anchoredLeft(constraints) == isAnchored(constraints) /\ hasAnchor(constraints, "left")

anchoredTop(constraints) == isAnchored(constraints) /\ hasAnchor(constraints, "top")

anchoredRight(constraints) == isAnchored(constraints) /\ hasAnchor(constraints, "right")

anchoredBottom(constraints) == isAnchored(constraints) /\ hasAnchor(constraints, "bottom")

anchoredVCenter(constraints) == isAnchored(constraints) /\ hasAnchor(constraints, "vcenter")

validRegion(validlist, rect) == Contains(validlist, rect.regionId) \/ Contains(validlist, rect.deviceId)

\* the centre fields of the result are never set (they test rect.anchor) nor read
computeBounds(bbox, anchored, reduction, constraints) ==
  [boundingWidth  |-> bbox.boundingWidth,
   boundingHeight |-> bbox.boundingHeight,
   width          |-> Scale(bbox.boundingWidth, reduction),
   height         |-> Scale(bbox.boundingHeight, reduction),
   boundingX0     |-> IF anchored /\ hasAnchor(constraints, "left") THEN 0 ELSE DontCare,
   boundingY0     |-> IF anchored /\ hasAnchor(constraints, "top") THEN 0 ELSE DontCare,
   boundingX1     |-> IF anchored /\ hasAnchor(constraints, "right")
                      THEN bbox.x0 + Scale(bbox.width, reduction) ELSE DontCare,
   boundingY1     |-> IF anchored /\ hasAnchor(constraints, "bottom")
                      THEN bbox.y0 + Scale(bbox.height, reduction) ELSE DontCare]

\* dependencies never looked at
dependenciesIgnored(rect, placedRects) == TRUE

packedDependencies(rect, placedRects) ==
  \A i \in DOMAIN rect.constraints.dependencies : Contains(placedRects, rect.constraints.dependencies[i])

fitsIn(rect, node) == rect.width <= node.width /\ rect.height <= node.height

fitsExactly(rect, node) ==
  /\ rect.width <= node.width /\ rect.width >= node.width - Px(MinDimension)
  /\ rect.height <= node.height /\ rect.height >= node.height - Px(MinDimension)

\* centered(rect, "vertical")
centered(rect) ==
  With([midpt \in {Half(rect.boundingHeight)} |->
  ~(rect.y0 + rect.height < midpt \/ rect.y0 > midpt)])

getDivide(nodeToSplit, splitSize) ==
  LET dw == nodeToSplit.width - splitSize.width
      dh == nodeToSplit.height - splitSize.height
  IN
  IF dw < Px(MinDimension) /\ dh < Px(MinDimension) THEN "none"
  ELSE IF dw >= dh /\ dw > Px(MinDimension) THEN "width"
  ELSE IF dh > Px(MinDimension) THEN "height" ELSE "none"

hasPreferredSize(constraints) ==
  constraints.prefSize.width # DontCare /\ constraints.prefSize.height # DontCare

\* two rects that touch side by side or one above the other
touching(n1, n2) ==
  IF n1.y0 = n2.y0 /\ n1.x0 + n1.width = n2.x0 THEN "right"
  ELSE IF n1.x0 = n2.x0 /\ n1.y0 + n1.height = n2.y0 THEN "bottom"
  ELSE IF n1.y0 = n2.y0 /\ n1.x0 = n2.x0 + n2.width THEN "left"
  ELSE IF n1.x0 = n2.x0 /\ n1.y0 = n2.y0 + n2.height THEN "top"
  ELSE "none"

neighboring(n1, n2) ==
  IF n1.y0 = n2.y0 /\ n1.x0 + n1.width = n2.x0 /\ n1.height = n2.height THEN "right"
  ELSE IF n1.x0 = n2.x0 /\ n1.y0 + n1.height = n2.y0 /\ n1.width = n2.width THEN "bottom"
  ELSE IF n1.y0 = n2.y0 /\ n1.x0 = n2.x0 + n2.width /\ n1.height = n2.height THEN "left"
  ELSE IF n1.x0 = n2.x0 /\ n1.y0 = n2.y0 + n2.height /\ n1.width = n2.width THEN "top"
  ELSE "none"

\* ------------------------------------------------------------------------
\* The packer's objects.  A node and its rect are one record; nodes live in
\* a heap and the lists _nodes, _updates, _dropped hold references, so that
\* a node changed after it was listed, or a list replaced by clones, shows
\* as in the code.  alias > 0 marks a tree root whose rect still is the
\* packing region of that index (buildtreelist shares the object).
\* ------------------------------------------------------------------------
Null == "null"

Undef == "undef"

\* the constraints of a rect that never held a component
NoCons ==
  [defined |-> FALSE, aspect |-> NoAspect,
   prefSize |-> [width |-> DontCare, height |-> DontCare],
   minSize |-> [width |-> 0, height |-> 0], valid |-> <<>>, priority |-> 0,
   audio |-> FALSE, video |-> FALSE, margin |-> 0, hasAnchor |-> FALSE, anchor |-> {},
   dependencies |-> <<>>]

\* buildtreelist: the node made of packing region reg
TreeNode(reg, id, alias) ==
  [id |-> id, x0 |-> reg.x0, y0 |-> reg.y0, width |-> reg.width, height |-> reg.height,
   boundingWidth |-> reg.boundingWidth, boundingHeight |-> reg.boundingHeight,
   deviceId |-> reg.deviceId, regionId |-> reg.regionId,
   maxVideo |-> reg.maxVideo, maxAudio |-> reg.maxAudio, communal |-> reg.communal,
   componentId |-> Undef, constraints |-> reg.constraints,
   personalconstraints |-> reg.personalconstraints,
   occupiedBy |-> Null, child |-> <<>>, fitChild |-> -1, split |-> Undef,
   dropped |-> FALSE, alias |-> alias]

\* the fields of a packing region that a node's rect carries
RegionOf(node) ==
  [x0 |-> node.x0, y0 |-> node.y0, width |-> node.width, height |-> node.height,
   boundingWidth |-> node.boundingWidth, boundingHeight |-> node.boundingHeight,
   deviceId |-> node.deviceId, regionId |-> node.regionId,
   maxVideo |-> node.maxVideo, maxAudio |-> node.maxAudio, communal |-> node.communal,
   constraints |-> node.constraints, personalconstraints |-> node.personalconstraints]

\* the null reference; the objects are numbered from 1
NoNode == 0

\* the node behind a reference
At(m, o) == m.heap[o]

\* the nodes of a list of references
Deref(m, os) == [i \in DOMAIN os |-> m.heap[os[i]]]

\* a new object; its reference is the old m.nextOid
Alloc(m, node) == [m EXCEPT !.heap = (m.nextOid :> node) @@ @, !.nextOid = @ + 1]

\* assignment to fields of the node o; a root that shares its rect with a
\* packing region changes the region as well
Put(m, o, node) ==
  LET a == m.heap[o].alias
      m1 == [m EXCEPT !.heap[o] = node]
  IN
  IF a = 0 THEN m1
  ELSE [m1 EXCEPT !.regions[a] = RegionOf(node)]

\* PackerUtils.uuid
uuid(m) == [m EXCEPT !.uuidCtr = @ + 1]

\* Util.clone of the node o of heap h, its children included: a new object
RECURSIVE CloneFrom(_, _, _)
CloneFrom(m, h, o) ==
  LET RECURSIVE Kids(_, _, _)
      Kids(mm, os, i) ==
        IF i > Len(h[o].child) THEN [m |-> mm, os |-> os]
        ELSE With([c \in {CloneFrom(mm, h, h[o].child[i])} |->
             Kids(c.m, Append(os, c.o), i + 1)])
  IN
  With([kids \in {Kids(m, <<>>, 1)} |->
  [m |-> Alloc(kids.m, [h[o] EXCEPT !.child = kids.os, !.alias = 0]), o |-> kids.m.nextOid]])

\* Util.clone of a list of nodes of heap h: the list of the new references
CloneList(m, h, os) ==
  LET RECURSIVE Go(_, _, _)
      Go(mm, acc, i) ==
        IF i > Len(os) THEN [m |-> mm, os |-> acc]
        ELSE With([c \in {CloneFrom(mm, h, os[i])} |->
             Go(c.m, Append(acc, c.o), i + 1)])
  IN
  Go(m, <<>>, 1)

\* this._nodes = Util.clone(list taken when the heap was h)
RestoreNodes(m, h, os) ==
  With([c \in {CloneList(m, h, os)} |->
  [c.m EXCEPT !.nodes = c.os]])

\* _.reject(this._nodes, node): the matcher compares the rect by reference,
\* so it drops the object itself
RejectNode(m, o) == [m EXCEPT !.nodes = SelectSeq(@, LAMBDA x : x # o)]

RECURSIVE RejectNodes(_, _)
RejectNodes(m, os) == IF os = <<>> THEN m ELSE RejectNodes(RejectNode(m, Head(os)), Tail(os))

\* a child node put at the corner of its parent
childAtParentCorner(parent, id, x0, y0, width, height, componentId, occupiedBy) ==
  [parent EXCEPT !.id = id, !.width = width, !.height = height,
                 !.componentId = componentId, !.occupiedBy = occupiedBy,
                 !.child = <<>>, !.fitChild = -1, !.split = Undef, !.dropped = FALSE,
                 !.alias = 0]

\* a child node {id, rect, occupiedBy} as nodeDivide and splitNode build it
ChildNode(parent, id, x0, y0, width, height, componentId, occupiedBy) ==
  [parent EXCEPT !.id = id, !.x0 = x0, !.y0 = y0, !.width = width, !.height = height,
                 !.componentId = componentId, !.occupiedBy = occupiedBy,
                 !.child = <<>>, !.fitChild = -1, !.split = Undef, !.dropped = FALSE,
                 !.alias = 0]

\* ------------------------------------------------------------------------
\* LayoutPacker: dividing a node
\* ------------------------------------------------------------------------
\* The geometry of nodeDivide: the two children, the fitChild set on the way
\* and whether the division is refused.
nodeDivideDims(m, splitdir, node, rectToSplit, splitSize, incomingRect, primary) ==
  LET personal == m.isMixed /\ ~node.communal
  IN
  With([_incomingConstraints \in {IF personal THEN incomingRect.personalconstraints ELSE incomingRect.constraints} |->
  With([_nodeToSplitConstraints \in {IF personal THEN node.personalconstraints ELSE node.constraints} |->
  LET occupied == node.occupiedBy # Null
  IN
  With([incomingAnchored \in {IF splitdir = "width" THEN anchoredRight(_incomingConstraints)
                              ELSE anchoredBottom(_incomingConstraints)} |->
  With([tenantAnchored \in {/\ IF splitdir = "width" THEN anchoredRight(_nodeToSplitConstraints)
                                                     ELSE anchoredBottom(_nodeToSplitConstraints)
                            /\ occupied /\ incomingRect.componentId # node.occupiedBy} |->
  LET flipdir == tenantAnchored \/ incomingAnchored
  IN
  \* the incoming rectangle takes child 1
  With([first \in {~flipdir \/ (node.occupiedBy = Null /\ primary) \/ node.occupiedBy = incomingRect.componentId} |->
  LET dim == IF splitdir = "width" THEN "width" ELSE "height"
      pos == IF splitdir = "width" THEN "x0" ELSE "y0"
      a == splitSize[dim]
  IN
  With([b \in {rectToSplit[dim] - a} |->
  With([base1 \in {[x0 |-> node.x0, y0 |-> node.y0, width |-> rectToSplit.width, height |-> rectToSplit.height]} |->
  With([base2 \in {[x0 |-> node.x0, y0 |-> node.y0, width |-> node.width, height |-> node.height]} |->
  With([child1 \in {IF first THEN [base1 EXCEPT ![dim] = a, ![pos] = IF flipdir THEN rectToSplit[pos] + b ELSE @]
                    ELSE [base1 EXCEPT ![dim] = b]} |->
  With([child2 \in {IF first THEN [base2 EXCEPT ![dim] = b, ![pos] = IF flipdir THEN @ ELSE rectToSplit[pos] + a]
                    ELSE [base2 EXCEPT ![dim] = a, ![pos] = rectToSplit[pos] + b]} |->
  LET fit0 == IF splitdir = "width" THEN -1 ELSE IF first THEN 0 ELSE 1
  IN
  With([incomingMin \in {toPixelResolution(_incomingConstraints.minSize, minRect)} |->
  LET child1Min == toPixelResolution(IF flipdir THEN _incomingConstraints.minSize
                                     ELSE _nodeToSplitConstraints.minSize, minRect)
      tooSmall(c, min) == c.width < min.width \/ c.height < min.height
  IN
  With([refused \in {\/ incomingAnchored /\ tenantAnchored
                     \/ occupied /\ tooSmall(child1, child1Min)
                     \/ ~occupied /\ (flipdir /\ ~primary) /\ tooSmall(child2, incomingMin)
                     \/ ~occupied /\ ~(flipdir /\ ~primary) /\ tooSmall(child1, incomingMin)} |->
  LET fit == IF incomingAnchored /\ tenantAnchored THEN -1
             ELSE IF occupied \/ refused THEN fit0
             ELSE IF flipdir /\ ~primary THEN 1 ELSE 0
  IN
  [child1 |-> child1, child2 |-> child2, fitChild |-> fit, refused |-> refused]])])])])])])])])])])])])

\* nodeDivide on the node o: the machine after it; the node has children iff
\* the division took place
nodeDivide(m, splitdir, o, rectToSplit, splitSize, incomingRect, primary) ==
  With([node \in {At(m, o)} |->
  With([d \in {nodeDivideDims(m, splitdir, node, rectToSplit, splitSize, incomingRect, primary)} |->
  With([m1 \in {Put(m, o, [node EXCEPT !.fitChild = d.fitChild])} |->
  IF d.refused THEN m1 ELSE LET id1 == m.uuidCtr + 1
                                id2 == m.uuidCtr + 2
                            IN
                            With([c1 \in {ChildNode(node, id1, d.child1.x0, d.child1.y0, d.child1.width, d.child1.height,
                                                    node.occupiedBy, node.occupiedBy)} |->
                            LET c2 == ChildNode(node, id2, d.child2.x0, d.child2.y0, d.child2.width, d.child2.height, Null, Null)
                                o1 == m.nextOid
                                o2 == m.nextOid + 1
                            IN
                            With([m2 \in {Alloc(Alloc([m1 EXCEPT !.uuidCtr = id2], c1), c2)} |->
                            With([m3 \in {Put(m2, o, [At(m2, o) EXCEPT !.child = <<o1, o2>>, !.occupiedBy = Null])} |->
                            LET m4 == IF node.occupiedBy # Null
                                      THEN [Alloc(m3, c1) EXCEPT !.updates = Append(@, m3.nextOid)]
                                      ELSE m3
                            IN
                            m4])])])])])])

\* centerNodeDivide: three slices (top, center, bottom) and, when the
\* rectangle is narrower than the node, a fourth for the right margin
centerNodeDivide(m, o, rect, direction, force) ==
  With([node \in {At(m, o)} |->
  With([m0 \in {Put(m, o, [node EXCEPT !.fitChild = -1])} |->
  IF (node.occupiedBy # Null /\ ~force) \/ direction = "horizontal" THEN m0
  ELSE LET dw == node.width - rect.width
       IN
       With([w \in {IF dw > Px(MinDimension) THEN dw ELSE node.width} |->
       With([top \in {Half(node.height - rect.height)} |->
       With([slices \in {<< [x0 |-> node.x0, y0 |-> node.y0, width |-> w, height |-> top],
                            [x0 |-> node.x0, y0 |-> node.y0 + top, width |-> w, height |-> rect.height],
                            [x0 |-> node.x0, y0 |-> node.y0 + top + rect.height, width |-> w,
                             height |-> node.height - top - rect.height] >>
                         \o (IF dw > Px(MinDimension)
                             THEN << [x0 |-> rect.width, y0 |-> node.y0, width |-> dw, height |-> node.height] >>
                             ELSE << >>)} |->
       LET RECURSIVE Make(_, _, _)
           Make(mm, os, i) ==
             IF i > Len(slices) THEN [m |-> mm, os |-> os]
             ELSE With([c \in {CloneFrom(mm, m0.heap, o)} |->
                  LET n == [At(c.m, c.o) EXCEPT !.id = mm.uuidCtr + 1, !.x0 = slices[i].x0, !.y0 = slices[i].y0,
                                                !.width = slices[i].width, !.height = slices[i].height]
                  IN
                  Make(Put(uuid(c.m), c.o, n), Append(os, c.o), i + 1)])
       IN
       With([made \in {Make(m0, <<>>, 1)} |->
       Put(made.m, o, [At(made.m, o) EXCEPT !.child = made.os, !.fitChild = Len(made.os) - 1])])])])])])])

\* updateNodelistAfterSplit
updateNodelistAfterSplit(m, split, originalNode) ==
  RejectNode([m EXCEPT !.nodes = @ \o <<split[1], split[2]>>], originalNode)

\* aspect_adjust_with_split: the machine and the rectangle after it; the
\* outcome is the split field of the node
aspect_adjust_with_split(m, o, splitrect, primaryDir, primary, minsize) ==
  With([splitnode \in {At(m, o)} |->
  With([_rectConstraints \in {resolveConstraints(splitnode, m.isMixed, splitrect)} |->
  LET SetSplit(mm, s) == Put(mm, o, [At(mm, o) EXCEPT !.split = s])
  IN
  IF ~HasAspect(_rectConstraints.aspect)
    THEN [m |-> SetSplit(m, "none"), rect |-> splitrect]
  ELSE LET margin == _rectConstraints.margin
       IN
       With([size \in {directed_aspect_correct_(splitrect.width, splitrect.height, _rectConstraints.aspect,
                                                margin, primaryDir, minsize)} |->
       With([adjusted \in {[splitrect EXCEPT !.width = size.width, !.height = size.height]} |->
       LET vcenter == anchoredVCenter(_rectConstraints)
       IN
            IF vcenter /\ adjusted.height < splitnode.height
         THEN With([mc \in {centerNodeDivide(m, o, adjusted, "vertical", TRUE)} |->
              [m |-> SetSplit(mc, IF At(mc, o).fitChild > -1 THEN "vcenter" ELSE "failed"), rect |-> adjusted]])
       ELSE With([splitdir \in {getDivide(splitrect, adjusted)} |->
                 IF splitdir = "none" \/ splitnode[splitdir] - adjusted[splitdir] < Px(MinDimension)
              THEN [m |-> Put(m, o, [splitnode EXCEPT !.width = adjusted.width, !.height = adjusted.height,
                                                      !.split = "none"]),
                    rect |-> adjusted]
            ELSE With([named \in {IF splitnode.occupiedBy # Null
                                  THEN [splitrect EXCEPT !.componentId = splitnode.occupiedBy] ELSE splitrect} |->
                 With([md \in {nodeDivide(m, splitdir, o, named, adjusted, named, primary)} |->
                 [m |-> SetSplit(md, IF At(md, o).child # <<>> THEN splitdir ELSE "failed"), rect |-> named]])])])])])])])

\* aspect_adjust_nofail: the node that holds the rectangle afterwards
aspect_adjust_nofail(m, o, splitrect, primaryDir, minsize) ==
  With([adj \in {aspect_adjust_with_split(m, o, splitrect, primaryDir, TRUE, minsize)} |->
  With([adjusted \in {At(adj.m, o)} |->
  IF adjusted.split \notin {"none", "failed"}
    THEN [m |-> updateNodelistAfterSplit(adj.m, adjusted.child, o), rect |-> adj.rect,
          node |-> adjusted.child[1]]
  ELSE With([rconstraints \in {resolveConstraints(adjusted, m.isMixed, adj.rect)} |->
       With([corrected \in {getAspectCorrectedComponentSize(adj.rect.width, adj.rect.height, rconstraints.margin,
                                                            rconstraints.aspect, adj.rect.width, adj.rect.height)} |->
       [m |-> Put(adj.m, o, [adjusted EXCEPT !.width = corrected.width, !.height = corrected.height,
                                             !.split = "failed"]),
        rect |-> adj.rect, node |-> o]])])])])

\* aspectSplit: the node for the rectangle, Null when the split failed
aspectSplit(m, o, rect, split, minsize) ==
  With([adj \in {aspect_adjust_with_split(m, o, rect, split, TRUE, minsize)} |->
  With([node \in {At(adj.m, o)} |->
  IF node.split = "none" THEN [m |-> adj.m, rect |-> adj.rect, node |-> o]
  ELSE IF node.split \in {"width", "height"}
    THEN [m |-> updateNodelistAfterSplit(adj.m, node.child, o), rect |-> adj.rect, node |-> node.child[1]]
  ELSE [m |-> adj.m, rect |-> adj.rect, node |-> NoNode]])])

\* ------------------------------------------------------------------------
\* LayoutPacker.packRect
\* ------------------------------------------------------------------------
\* The body of the for loop of packRect for the node o.  s holds the machine,
\* the rectangle, done, retNode and, once the function has returned, ret.
packRectNode(s, o, reduction, factor) ==
  LET m == s.m
      rect == s.rect
  IN
  With([node \in {At(m, o)} |->
  With([_rectconstraints \in {resolveConstraints(node, m.isMixed, rect)} |->
  LET noCapacity ==
        \/ ~validRegion(_rectconstraints.valid, node)
        \/ _rectconstraints.video /\ m.numVideo[node.deviceId] >= node.maxVideo
        \/ _rectconstraints.audio /\ m.numAudio[node.deviceId] >= node.maxAudio
  IN
  IF noCapacity THEN s
  ELSE LET anchored == _rectconstraints.hasAnchor
       IN
       With([m1 \in {[m EXCEPT !.device = TRUE]} |->
       With([enclosingRect \in {computeBounds(node, anchored, reduction, _rectconstraints)} |->
       With([_minSize \in {toPixelResolutionA(_rectconstraints.minSize, minRect, _rectconstraints.aspect)} |->
       LET unusable ==
             \/ _minSize.width > enclosingRect.boundingWidth
             \/ _minSize.height > enclosingRect.boundingHeight
             \/ node.occupiedBy # Null
             \/ anchored /\ \/ enclosingRect.boundingX0 = 0 /\ node.x0 > 0
                            \/ enclosingRect.boundingY0 = 0 /\ node.y0 > 0
                            \/ enclosingRect.boundingX1 > 0 /\ node.x0 + node.width < enclosingRect.boundingWidth
                            \/ enclosingRect.boundingY1 > 0 /\ node.y0 + node.height < enclosingRect.boundingHeight
           Continue(mm, r) == [s EXCEPT !.m = mm, !.rect = r]
       IN
            IF unusable THEN Continue(m1, rect)
       ELSE With([vcenter \in {anchored /\ hasAnchor(_rectconstraints, "vcenter")} |->
            LET dontSplit == ~vcenter /\ \/ enclosingRect.boundingX0 > DontCare /\ enclosingRect.boundingX1 > DontCare
                                         \/ enclosingRect.boundingY0 > DontCare /\ enclosingRect.boundingY1 > DontCare
                Return(mm, r, n) == [s EXCEPT !.m = mm, !.rect = r, !.returned = TRUE, !.ret = n]
            IN
                 IF dontSplit THEN With([asp \in {aspectSplit(m1, o, rect, IF rect.width >= rect.height THEN "width" ELSE "height", _minSize)} |->
                                   Return(asp.m, asp.rect, asp.node)])
            ELSE With([boundingW \in {Scale(node.width, reduction)} |->
                 With([boundingH \in {Scale(node.height, reduction)} |->
                 \* mode is pixels
                 LET margin == 2 * _rectconstraints.margin
                     pref == _rectconstraints.prefSize
                 IN
                 With([useMinW \in {m.pass >= 2 /\ _minSize.width > Px(MinDimension)} |->
                 With([useMinH \in {m.pass >= 2 /\ _minSize.height > Px(MinDimension)} |->
                 LET wide == rect.height # DontCare \/ node.width >= node.height
                     subdivide == ~useMinW /\ pref.width = DontCare /\ ~wide
                 IN
                 With([w1 \in {IF useMinW THEN _minSize.width + margin
                               ELSE IF pref.width # DontCare THEN Scale(pref.width, reduction) + margin
                               ELSE IF wide THEN setUndefinedLegLength(node, enclosingRect, factor, "width", _minSize,
                                                                       _rectconstraints.margin)
                               ELSE Scale(node.width, reduction)} |->
                 With([h1 \in {IF pref.height = DontCare
                               THEN margin + (IF subdivide
                                              THEN setUndefinedLegLength(node, enclosingRect, factor, "height", _minSize,
                                                                         _rectconstraints.margin)
                                              ELSE IF useMinH
                                              THEN (IF ~HasAspect(_rectconstraints.aspect) THEN _minSize.height
                                                    ELSE correctedSize(w1, node.height, _rectconstraints.margin,
                                                                       _rectconstraints.aspect, boundingW, boundingH).height)
                                              ELSE Scale(node.height, reduction))
                               ELSE IF useMinH THEN _minSize.height + margin
                               ELSE Scale(pref.height, reduction) + margin} |->
                 With([size \in {IF HasAspect(_rectconstraints.aspect)
                                 THEN correctedSize(w1, h1, _rectconstraints.margin, _rectconstraints.aspect, boundingW, boundingH)
                                 ELSE [width |-> w1, height |-> h1]} |->
                 LET tooSmall == size.width < _minSize.width \/ size.height < _minSize.height
                 IN
                      IF tooSmall THEN Continue(m1, rect)
                 ELSE With([rect1 \in {[rect EXCEPT
                                          !.width = IF ~m.shuffling /\ size.width > node.width /\ node.width > _minSize.width
                                                    THEN node.width ELSE size.width,
                                          !.height = IF ~m.shuffling /\ size.height > node.height /\ node.height > _minSize.height
                                                     THEN node.height ELSE size.height]} |->
                      LET noFit == ~fitsIn(rect1, node) \/ (vcenter /\ ~centered(node))
                      IN
                           IF noFit THEN Continue(m1, rect1)
                      ELSE LET exact == /\ fitsExactly(rect1, node)
                                        /\ \/ ~HasAspect(_rectconstraints.aspect)
                                           \/ aspectMatches(rect1.width, rect1.height, _rectconstraints.aspect)
                           IN
                                IF exact \/ m.shuffling THEN Return(m1, rect1, o)
                           ELSE      IF vcenter /\ rect1.height < node.height
                                  THEN \* split 3 way for vcenter
                                       With([mc \in {centerNodeDivide(m1, o, rect1, "vertical", FALSE)} |->
                                       With([divnode \in {At(mc, o)} |->
                                       IF divnode.fitChild > -1
                                       THEN LET pushed == [i \in 1..(divnode.fitChild + 1) |-> divnode.child[divnode.fitChild + 2 - i]]
                                            IN
                                            Return([mc EXCEPT !.nodes = @ \o pushed, !.dropped = Append(@, o)], rect1, divnode.child[2])
                                       ELSE [s EXCEPT !.m = mc, !.rect = rect1, !.done = FALSE]])])
                                ELSE With([adjH \in {(Half(node.boundingHeight) - node.y0) * 2} |->
                                     LET adjust == vcenter /\ rect1.height = node.height
                                     IN
                                          IF adjust /\ adjH < _minSize.height THEN Continue(m1, rect1)
                                     ELSE With([adjW \in {IF HasAspect(_rectconstraints.aspect) THEN DivA(adjH, _rectconstraints.aspect) ELSE rect1.width} |->
                                               IF adjust /\ HasAspect(_rectconstraints.aspect) /\ adjW < _minSize.width
                                            THEN Continue(m1, [rect1 EXCEPT !.height = adjH, !.width = adjW])
                                          ELSE With([rect2 \in {IF adjust THEN [rect1 EXCEPT !.height = adjH, !.width = adjW] ELSE rect1} |->
                                               With([splitdir \in {getDivide(node, rect2)} |->
                                                    IF splitdir = "none" THEN Return(m1, rect2, o)
                                               ELSE With([md \in {nodeDivide(m1, splitdir, o, node, rect2, rect2, FALSE)} |->
                                                    With([ret \in {At(md, o)} |->
                                                         IF ret.child = <<>> THEN Return(md, rect2, o)
                                                    ELSE With([mp \in {[md EXCEPT !.nodes = @ \o ret.child, !.dropped = Append(@, o)]} |->
                                                         LET fit == IF ret.fitChild > -1 THEN ret.child[ret.fitChild + 1] ELSE s.retNode
                                                         IN
                                                              IF ret.fitChild > -1 /\ (pref.width = DontCare \/ pref.height = DontCare)
                                                           THEN Return(mp, rect2, fit)
                                                         ELSE [s EXCEPT !.m = mp, !.rect = rect2, !.done = FALSE, !.retNode = fit]])])])])])])])])])])])])])])])])])])])])])

\* packRect: the machine, the rectangle and the node found (NoNode if none)
packRect(m, rect, reduction, factor) ==
  LET RECURSIVE While(_)
      While(s) ==
        LET n == Len(s.m.nodes)
            RECURSIVE Each(_, _)
            Each(t, i) == IF t.returned \/ i > n THEN t
                          ELSE Each(packRectNode(t, t.m.nodes[i], reduction, factor), i + 1)
        IN
        With([t \in {Each([s EXCEPT !.done = TRUE], 1)} |->
        IF t.returned THEN t
        ELSE With([swept \in {[RejectNodes(t.m, t.m.dropped) EXCEPT !.dropped = <<>>]} |->
                  IF t.done THEN [t EXCEPT !.m = swept, !.returned = TRUE, !.ret = t.retNode]
             ELSE While([t EXCEPT !.m = swept])])])
  IN
  With([out \in {While([m |-> [m EXCEPT !.dropped = <<>>], rect |-> rect, done |-> FALSE, retNode |-> NoNode,
                        returned |-> FALSE, ret |-> NoNode])} |->
  [m |-> out.m, rect |-> out.rect, node |-> out.ret]])

\* ------------------------------------------------------------------------
\* LayoutPacker: choosing a node to split
\* ------------------------------------------------------------------------
\* The body of the for loop of findSplitNodeTraversal: the split offered by
\* the node, "skip" when the node is no option
splitOption(m, node, rect, reduction) ==
  With([_rectConstraints \in {resolveConstraints(node, m.isMixed, rect)} |->
  IF ~validRegion(_rectConstraints.valid, node) THEN "skip"
  ELSE      IF ~fitsIn(rect, node) \/ ~meetsMinReq(node, _rectConstraints.minSize) THEN "skip"
       ELSE LET anchored == _rectConstraints.hasAnchor
            IN
            With([bBox \in {computeBounds(node, anchored, reduction, _rectConstraints)} |->
            With([aLeft \in {anchored /\ anchoredLeft(_rectConstraints)} |->
            With([aRight \in {anchored /\ anchoredRight(_rectConstraints)} |->
            With([aTop \in {anchored /\ anchoredTop(_rectConstraints)} |->
            With([aBottom \in {anchored /\ anchoredBottom(_rectConstraints)} |->
            LET spansWidth == aRight /\ aLeft
                spansHeight == aTop /\ aBottom
            IN
            With([aVCenter \in {anchored /\ anchoredVCenter(_rectConstraints)} |->
            LET breaksAnchor ==
                  \/ aLeft /\ node.x0 > 0
                  \/ aRight /\ node.x0 + node.width < bBox.boundingWidth
                  \/ aTop /\ node.y0 > 0
                  \/ aBottom /\ node.y0 + node.height < bBox.boundingHeight
                  \/ spansWidth /\ spansHeight
                  \/ aVCenter /\ ~centered(node)
            IN
                 IF breaksAnchor THEN "skip"
            ELSE With([minsize \in {toPixelResolutionA(_rectConstraints.minSize, minRect, _rectConstraints.aspect)} |->
                      IF ~meetsMinReq(node, minsize) THEN "skip"
                 ELSE      IF node.occupiedBy = Null
                        THEN IF ~aVCenter THEN "none"
                             ELSE With([h \in {(Half(node.boundingHeight) - node.y0) * 2} |->
                                       IF h < minsize.height THEN "skip"
                                  ELSE IF HasAspect(_rectConstraints.aspect) /\ DivA(h, _rectConstraints.aspect) < minsize.width
                                    THEN "skip"
                                  ELSE "vcenter"])
                      ELSE With([_nodeConstraints \in {resolveConstraints(node, m.isMixed, node)} |->
                           With([tenantAnchoredLeft \in {anchoredLeft(_nodeConstraints)} |->
                           With([tenantAnchoredRight \in {anchoredRight(_nodeConstraints)} |->
                           With([tenantAnchoredTop \in {anchoredTop(_nodeConstraints)} |->
                           With([tenantAnchoredBottom \in {anchoredBottom(_nodeConstraints)} |->
                           LET tenantAnchoredVCenter == anchoredVCenter(_nodeConstraints)
                               affixedVerticalEdge == (aTop /\ tenantAnchoredTop) \/ (aBottom /\ tenantAnchoredBottom)
                               affixedHorizontalEdge == (aLeft /\ tenantAnchoredLeft) \/ (aRight /\ tenantAnchoredRight)
                               nodeSpansWidth == tenantAnchoredLeft /\ tenantAnchoredRight
                               nodeSpansHeight == tenantAnchoredTop /\ tenantAnchoredBottom
                           IN
                           With([tenantMinsize \in {toPixelResolutionA(_nodeConstraints.minSize, minRect, _nodeConstraints.aspect)} |->
                           With([canSplitWidth \in {/\ ~nodeSpansWidth /\ ~spansWidth /\ ~affixedHorizontalEdge
                                                    /\ tenantMinsize.width < node.width} |->
                           With([canSplitHeight \in {/\ ~nodeSpansHeight /\ ~spansHeight /\ ~affixedVerticalEdge /\ ~tenantAnchoredVCenter
                                                     /\ tenantMinsize.height < node.height} |->
                                IF ~(canSplitHeight \/ canSplitWidth) THEN "skip"
                           ELSE      IF affixedHorizontalEdge /\ affixedVerticalEdge THEN "skip"
                                ELSE      IF nodeSpansWidth /\ nodeSpansHeight THEN "skip"
                                     ELSE      IF _nodeConstraints.prefSize.width = DontCare /\ _nodeConstraints.prefSize.height = DontCare
                                            THEN IF affixedVerticalEdge /\ canSplitWidth THEN "width"
                                                 ELSE IF affixedHorizontalEdge /\ canSplitHeight THEN "height"
                                                 ELSE IF node.width >= node.height /\ canSplitWidth THEN "width"
                                                 ELSE IF canSplitHeight THEN "height"
                                                 ELSE "skip"
                                          ELSE      IF _nodeConstraints.prefSize.width = DontCare /\ canSplitWidth THEN "width"
                                               ELSE      IF /\ _nodeConstraints.prefSize.height = DontCare
                                                            /\ (~aTop \/ ~tenantAnchoredTop) /\ (~aBottom \/ ~tenantAnchoredBottom) /\ canSplitHeight
                                                      THEN "height"
                                                    ELSE LET pixels == toPixelResolution(_nodeConstraints.prefSize, minsize)
                                                         IN
                                                              IF node.width > node.height /\ pixels.width <= node.width /\ canSplitWidth THEN "width"
                                                         ELSE IF canSplitHeight THEN "height"
                                                         ELSE "skip"])])])])])])])])])])])])])])])])

\* findSplitNodeTraversal: the options, each a node reference and a split
findSplitNodeTraversal(m, rect, reduction) ==
  LET all == [i \in DOMAIN m.nodes |->
                [node |-> m.nodes[i], split |-> splitOption(m, At(m, m.nodes[i]), rect, reduction)]]
  IN
  SelectSeq(all, LAMBDA op : op.split # "skip")

\* the comparator of findSplitNodeOptions
splitOptionOrder(m, a, b) ==
  With([na \in {At(m, a.node)} |->
  With([nb \in {At(m, b.node)} |->
  IF na.occupiedBy = Null /\ nb.occupiedBy = Null THEN larger_first(na, nb)
  ELSE      IF na.occupiedBy = Null THEN -1
       ELSE      IF nb.occupiedBy = Null THEN 1
            ELSE With([aConstraints \in {resolveConstraints(na, m.isMixed, na)} |->
                 With([bConstraints \in {resolveConstraints(nb, m.isMixed, nb)} |->
                 With([prefA \in {hasPreferredSize(aConstraints)} |->
                 With([prefB \in {hasPreferredSize(bConstraints)} |->
                      IF ~prefA /\ prefB THEN -1
                 ELSE IF prefA /\ ~prefB THEN 1
                 ELSE IF aConstraints.priority > bConstraints.priority THEN 1
                 ELSE IF aConstraints.priority < bConstraints.priority THEN -1
                 ELSE larger_first(na, nb)])])])])])])

findSplitNodeOptions(m, r, reduction) ==
  SortBy(findSplitNodeTraversal(m, r, reduction), LAMBDA a, b : splitOptionOrder(m, a, b) > 0)

\* ------------------------------------------------------------------------
\* LayoutPacker: splitting an occupied node
\* ------------------------------------------------------------------------
\* computeSplitDimensions: the lengths of the two children along dim
computeSplitDimensions(node, dim, minsize, minR, _nodeConstraints, _rectConstraints) ==
  IF dim = "vcenter"
    THEN LET midpt == Half(node.boundingHeight)
         IN
         With([c1h \in {(node.y0 - midpt) * 2} |->
         [child1 |-> [width |-> node.width, height |-> c1h],
          child2 |-> [width |-> node.width, height |-> node.height - c1h]]])
  ELSE LET full == node[dim]
       IN
       With([half \in {Half(full)} |->
       With([rest \in {full - half} |->
       LET nodePref == _nodeConstraints.prefSize[dim]
           preferredRectLeg == _rectConstraints.prefSize[dim]
           Split(a, b) == [child1 |-> [[width |-> node.width, height |-> node.height] EXCEPT ![dim] = a],
                           child2 |-> [[width |-> node.width, height |-> node.height] EXCEPT ![dim] = b]]
           Child1(a) == Split(a, full - a)
           Child2(b) == Split(full - b, b)
       IN
            IF nodePref = DontCare /\ preferredRectLeg = DontCare
         THEN IF half >= minsize[dim] /\ rest >= minR[dim] THEN Split(half, rest)
              ELSE IF _nodeConstraints.priority >= _rectConstraints.priority
                THEN IF half < minsize[dim] THEN Child1(minsize[dim]) ELSE Child2(minR[dim])
              ELSE IF rest < minsize[dim] THEN Child2(minsize[dim])
              ELSE Child1(minR[dim])
       ELSE LET minDim == minsize[dim]
            IN
                 IF preferredRectLeg = DontCare
              THEN IF half > minDim /\ rest > minR[dim] THEN Split(half, rest)
                   ELSE Child2(Min(minR[dim], full - minDim))
            ELSE IF nodePref = DontCare \/ _rectConstraints.priority > _nodeConstraints.priority
              THEN IF full - preferredRectLeg > minDim THEN Child2(preferredRectLeg)
                   ELSE IF half > minDim /\ rest > minR[dim] THEN Split(half, rest)
                   ELSE Child2(Max(minR[dim], full - minDim))
            ELSE IF half > minDim /\ rest > minR[dim] THEN Split(half, rest)
            ELSE Child1(Max(minDim, full - minR[dim]))])])

\* The two rects of splitNode before the nodes are made: child 1 for the
\* tenant, child 2 for the incoming rectangle; ok is false where the code
\* returns null
splitNodeDims(m, node, splitdir, rect) ==
  With([_rectConstraints \in {resolveConstraints(node, m.isMixed, rect)} |->
  With([_nodeConstraints \in {resolveConstraints(node, m.isMixed, node)} |->
  With([min \in {toPixelResolution(_nodeConstraints.minSize, minRect)} |->
  With([minR \in {toPixelResolution(_rectConstraints.minSize, minRect)} |->
  With([d \in {computeSplitDimensions(node, splitdir, min, minR, _nodeConstraints, _rectConstraints)} |->
  LET fail1 == d.child2.width <= 0 \/ d.child2.height <= 0
  IN
  With([w1 \in {IF d.child1.width < min.width THEN min.width ELSE d.child1.width} |->
  With([w2 \in {IF d.child1.width < min.width THEN node.width - min.width ELSE d.child2.width} |->
  LET h1 == IF d.child1.height < min.height THEN min.height ELSE d.child1.height
  IN
  With([h2 \in {IF d.child1.height < min.height THEN node.height - min.height ELSE d.child2.height} |->
  LET fail2 == w2 < minR.width \/ h2 < minR.height
      size == directed_aspect_correct(w2, h2, _rectConstraints.aspect, _rectConstraints.margin, splitdir)
  IN
  With([redo \in {HasAspect(_rectConstraints.aspect) /\ splitdir = "height" /\ size.width < minR.width} |->
  LET size2 == directed_aspect_correct_no_check(minR.width, h2, _rectConstraints.aspect,
                                                _rectConstraints.margin, "width")
  IN
  With([h2a \in {IF redo THEN size2.height ELSE h2} |->
  With([h1a \in {IF redo THEN node.height - size2.height ELSE h1} |->
  LET fail3 == redo /\ (size2.height < minR.height \/ w1 < min.width \/ h1a < min.height)
  IN
  With([tenantLast \in {\/ anchoredLeft(_rectConstraints) /\ ~anchoredLeft(_nodeConstraints)
                        \/ anchoredRight(_nodeConstraints)} |->
  With([tenantBelow \in {\/ anchoredTop(_rectConstraints) /\ ~anchoredTop(_nodeConstraints)
                         \/ anchoredBottom(_nodeConstraints)} |->
  [ok |-> ~(fail1 \/ fail2 \/ fail3), min |-> min, minRect |-> minR,
   child1 |-> [x0 |-> IF splitdir = "width" /\ tenantLast THEN node.x0 + w2 ELSE node.x0,
               y0 |-> IF splitdir = "height" /\ tenantBelow THEN node.y0 + h2a ELSE node.y0,
               width |-> w1, height |-> h1a],
   child2 |-> [x0 |-> IF splitdir = "width" /\ ~tenantLast THEN node.x0 + w1 ELSE node.x0,
               y0 |-> IF splitdir = "height" /\ ~tenantBelow THEN node.y0 + h1a ELSE node.y0,
               width |-> w2, height |-> h2a]]])])])])])])])])])])])])])

\* node.occupiedBy = v; a missing node is a TypeError
SetOccupant(m, o, v) == IF o = NoNode THEN [m EXCEPT !.err = TRUE] ELSE Put(m, o, [At(m, o) EXCEPT !.occupiedBy = v])

\* child[i] of a node (i from 0), NoNode where the array has no such element
ChildAt(n, i) == IF i + 1 <= Len(n.child) THEN n.child[i + 1] ELSE NoNode

\* the part of splitNode that lists one child after its aspect adjustment:
\* the slice named by keep takes the occupant, the others are freed
listSplitChild(m, c, occupant, keep, count) ==
  LET n == At(m, c)
      RECURSIVE Free(_, _)
      Free(mm, i) ==
        IF i >= count THEN mm
        ELSE Free(SetOccupant(mm, ChildAt(n, i), IF i = keep THEN occupant ELSE Null), i + 1)
  IN
  With([m1 \in {SetOccupant(Free(m, 0), c, Null)} |->
  IF m1.err THEN m1
  ELSE [m1 EXCEPT !.updates = Append(@, ChildAt(n, keep)),
                  !.nodes = @ \o [i \in 1..count |-> n.child[i]]]])

\* splitNode: the machine, the rectangle and the node that holds it (NoNode
\* where the code returns null)
splitNode(m, o, splitdir, rect, reduceFactor) ==
  With([node \in {At(m, o)} |->
  With([d \in {splitNodeDims(m, node, splitdir, rect)} |->
  IF ~d.ok THEN [m |-> m, rect |-> rect, node |-> NoNode]
  ELSE LET id1 == m.uuidCtr + 1
           id2 == m.uuidCtr + 2
           c1 == m.nextOid
           c2 == m.nextOid + 1
           child1 == ChildNode(node, id1, d.child1.x0, d.child1.y0, d.child1.width, d.child1.height,
                               node.componentId, node.occupiedBy)
           child2 == [ChildNode(node, id2, d.child2.x0, d.child2.y0, d.child2.width, d.child2.height,
                                node.componentId, rect.componentId)
                      EXCEPT !.constraints = rect.constraints,
                             !.personalconstraints = IF m.isMixed THEN rect.personalconstraints ELSE @]
       IN
       With([m1 \in {Alloc(Alloc([m EXCEPT !.uuidCtr = id2], child1), child2)} |->
       With([a1 \in {aspect_adjust_with_split(m1, c1, At(m1, c1), splitdir, FALSE, d.min)} |->
       LET a2 == aspect_adjust_with_split(a1.m, c2, At(a1.m, c2), splitdir, FALSE, d.minRect)
       IN
       With([m2 \in {a2.m} |->
       With([n1 \in {At(m2, c1)} |->
       With([n2 \in {At(m2, c2)} |->
            IF n1.split = "failed" \/ n2.split = "failed" THEN [m |-> m2, rect |-> rect, node |-> NoNode]
       ELSE With([m3 \in {IF n1.split = "none"
                          THEN [m2 EXCEPT !.updates = Append(@, c1), !.nodes = Append(@, c1)]
                          ELSE IF n1.split = "vcenter" THEN listSplitChild(m2, c1, node.occupiedBy, 1, 3)
                          ELSE listSplitChild(m2, c1, node.occupiedBy, 0, 2)} |->
            With([m4 \in {IF n2.split = "none"
                          THEN [m3 EXCEPT !.updates = Append(@, c2), !.nodes = Append(@, c2)]
                          ELSE IF n1.split = "vcenter" THEN listSplitChild(m3, c2, rect.componentId, 1, 3)
                          ELSE listSplitChild(m3, c2, rect.componentId, 0, 2)} |->
                 IF m3.err \/ m4.err THEN [m |-> [m2 EXCEPT !.err = TRUE], rect |-> rect, node |-> NoNode]
            ELSE With([placedNode \in {IF n2.split = "none" THEN c2
                                       ELSE IF n1.split = "vcenter" THEN ChildAt(n2, 1)
                                       ELSE ChildAt(n2, 0)} |->
                 With([placed \in {At(m3, placedNode)} |->
                 LET rect1 == [rect EXCEPT !.x0 = placed.x0, !.y0 = placed.y0, !.width = placed.width,
                                           !.height = placed.height]
                 IN
                 [m |-> RejectNode(m4, o), rect |-> rect1, node |-> placedNode]])])])])])])])])])])])

\* ------------------------------------------------------------------------
\* LayoutPacker: combining unoccupied neighbouring nodes
\* ------------------------------------------------------------------------
\* this._nodes.sort(comparator on the rects)
SortNodes(m, Cmp(_, _)) ==
  [m EXCEPT !.nodes = SortBy(@, LAMBDA a, b : Cmp(At(m, a), At(m, b)) > 0)]

\* node.dropped = false for every listed node
ClearDropped(m) ==
  [m EXCEPT !.heap = [o \in DOMAIN @ |-> IF Contains(m.nodes, o) THEN [@[o] EXCEPT !.dropped = FALSE] ELSE @[o]]]

\* two rects that have one whole edge in common: they touch along an axis,
\* start at the same place on the other axis and are as long on it
SharesFullEdge(a, b) ==
  \/ a.y0 = b.y0 /\ a.height = b.height /\ (a.x0 + a.width = b.x0 \/ b.x0 + b.width = a.x0)
  \/ a.x0 = b.x0 /\ a.width = b.width /\ (a.y0 + a.height = b.y0 \/ b.y0 + b.height = a.y0)

\* history kept for the properties, not read by the packer: what a
\* consolidation merged, the node as it was, its neighbour and the node grown
Merged(m, node, neighbor, grown) ==
  [m EXCEPT !.merges = @ \cup {[occupiedBy |-> node.occupiedBy, neighborOccupiedBy |-> neighbor.occupiedBy,
                                 aligned |-> SharesFullEdge(node, neighbor),
                                 kept |-> grown.occupiedBy = node.occupiedBy,
                                 grew |-> grown.width > node.width \/ grown.height > node.height]}]

\* a sweep that passes over the node itself only
skipsItself(node, neighbor) == neighbor.id = node.id

\* the neighbours _consolidate passes over: occupied or dropped ones, the
\* node itself, nodes of another region, all when the node fills its region
skipsNeighbor(node, neighbor) ==
  \/ neighbor.occupiedBy # Null \/ neighbor.dropped
  \/ neighbor.id = node.id
  \/ neighbor.deviceId # node.deviceId \/ neighbor.regionId # node.regionId
  \/ node.width = node.boundingWidth /\ node.height = node.boundingHeight

\* _consolidate: one sweep over the list for the neighbours of node o
_consolidate(m, o, dropped) ==
  LET RECURSIVE Sweep(_, _, _, _)
      Sweep(mm, dr, did, n) ==
        IF n > Len(mm.nodes) THEN [m |-> mm, dropped |-> dr, did |-> did]
        ELSE LET p == mm.nodes[n]
             IN
             With([neighbor \in {At(mm, p)} |->
             With([node \in {At(mm, o)} |->
             With([side \in {neighboring(node, neighbor)} |->
             IF skipsNeighbor(node, neighbor) \/ side = "none"
             THEN Sweep(mm, dr, did, n + 1)
             ELSE With([grown \in {IF side = "left"
                                     THEN [node EXCEPT !.x0 = neighbor.x0, !.width = @ + neighbor.width]
                                   ELSE IF side = "right" THEN [node EXCEPT !.width = @ + neighbor.width]
                                   ELSE IF side = "top"
                                     THEN [node EXCEPT !.y0 = neighbor.y0, !.height = @ + neighbor.height]
                                   ELSE [node EXCEPT !.height = @ + neighbor.height]} |->
                  With([m1 \in {Put(mm, o, grown)} |->
                  LET m2 == Merged(Put(m1, p, [At(m1, p) EXCEPT !.dropped = TRUE]), node, neighbor, grown)
                  IN
                  Sweep(m2, Append(dr, p), TRUE, n + 1)])])])])])
  IN
  Sweep(m, dropped, FALSE, 1)

\* while (this._consolidate(node, toDrop)) { continue; }
RECURSIVE consolidateWhile(_, _, _)
consolidateWhile(m, o, dropped) ==
  With([c \in {_consolidate(m, o, dropped)} |->
  IF c.did THEN consolidateWhile(c.m, o, c.dropped) ELSE [m |-> c.m, dropped |-> c.dropped]])

\* alternateRegions: the head of the list changes places with the first node
\* of another region; both are replaced by clones
alternate(m, lastPlacedRegion) ==
  LET head == m.nodes[1]
  IN
  With([i \in {FirstIdx(Tail(m.nodes), LAMBDA o : At(m, o).regionId # lastPlacedRegion) + 1} |->
  IF At(m, head).regionId # lastPlacedRegion \/ i = 1 THEN m
  ELSE With([swap \in {CloneFrom(m, m.heap, head)} |->
       With([other \in {CloneFrom(swap.m, m.heap, m.nodes[i])} |->
       [other.m EXCEPT !.nodes = [@ EXCEPT ![1] = other.o, ![i] = swap.o]]])])])

consolidateWhiteNodes(m, lastPlacedRegion) ==
  IF Len(m.nodes) < 2 THEN m
  ELSE      IF m.shuffling THEN SortNodes(m, larger_tl)
       ELSE LET m0 == ClearDropped(m)
                RECURSIVE Each(_, _, _)
                Each(mm, dr, i) ==
                  IF i > Len(m.nodes) THEN [m |-> mm, dropped |-> dr]
                  ELSE LET node == At(mm, m.nodes[i])
                       IN
                       IF node.occupiedBy = Null /\ ~node.dropped THEN With([c \in {consolidateWhile(mm, m.nodes[i], dr)} |->
                                                                       Each(c.m, c.dropped, i + 1)])
                       ELSE Each(mm, dr, i + 1)
            IN
            With([done \in {Each(m0, <<>>, 1)} |->
            LET kept == SortNodes(RejectNodes(done.m, done.dropped), larger_first)
            IN
            alternate(kept, lastPlacedRegion)])

\* consolidateNodes: the machine and the list of the nodes that grew
consolidateNodes(m, force) ==
  IF Len(m.nodes) < 2 THEN [m |-> m, updates |-> <<>>]
  ELSE LET m0 == SortNodes(ClearDropped(m), smaller_tl)
       \* the inner while for one node: a sort and an update per consolidation
           RECURSIVE Grow(_, _, _, _)
           Grow(mm, o, dr, ups) ==
             With([c \in {_consolidate(mm, o, dr)} |->
             IF c.did THEN Grow(SortNodes(c.m, smaller_tl), o, c.dropped, Append(ups, o))
             ELSE [m |-> c.m, dropped |-> c.dropped, updates |-> ups]])
           Eligible(mm, o) ==
             With([node \in {At(mm, o)} |->
             LET aspect == IF node.occupiedBy # Null THEN resolveConstraints(node, mm.isMixed, node).aspect
                           ELSE NoAspect
             IN
             ~node.dropped /\ (force \/ node.occupiedBy = Null \/ ~HasAspect(aspect))])
           RECURSIVE Loop(_, _, _, _)
           Loop(mm, dr, ups, i) ==
             IF i > Len(mm.nodes) THEN [m |-> mm, dropped |-> dr, updates |-> ups]
             ELSE LET o == mm.nodes[i]
                  IN
                  IF ~Eligible(mm, o) THEN Loop(mm, dr, ups, i + 1)
                  ELSE With([g \in {Grow(mm, o, dr, ups)} |->
                            IF Len(g.updates) > Len(ups) THEN Loop(g.m, g.dropped, g.updates, 1)
                       ELSE Loop(g.m, g.dropped, ups, i + 1)])
       IN
       With([done \in {Loop(m0, <<>>, <<>>, 1)} |->
       [m |-> SortNodes(RejectNodes(done.m, done.dropped), larger_first), updates |-> done.updates]])

consolidateSingleNode(m, o) ==
  With([c \in {consolidateWhile(ClearDropped(m), o, <<>>)} |->
  RejectNodes(c.m, c.dropped)])

\* ------------------------------------------------------------------------
\* LayoutPacker.packer
\* ------------------------------------------------------------------------
\* this._nodes.find((t) => t.id === id)
FindById(m, id) ==
  With([i \in {FirstIdx(m.nodes, LAMBDA o : At(m, o).id = id)} |->
  IF i = 0 THEN NoNode ELSE m.nodes[i]])

\* reduction * this.reduceFactor
Reduce(m, reduction) ==
  IF m.reduceFactor = "single" THEN [reduction EXCEPT !.e7 = @ + 1]
  ELSE IF m.reduceFactor = "rate" THEN [reduction EXCEPT !.e8 = @ + 1]
  ELSE reduction

\* options.forEach of packer: the first option that yields a node
trySplitOptions(m, r, options, reduction) ==
  LET RECURSIVE Try(_, _, _)
      Try(mm, rr, i) ==
        IF i > Len(options) THEN [m |-> mm, rect |-> rr, node |-> NoNode]
        ELSE With([o \in {FindById(mm, At(mm, options[i].node).id)} |->
             IF o = NoNode THEN [m |-> [mm EXCEPT !.err = TRUE], rect |-> rr, node |-> NoNode]
             ELSE With([node \in {At(mm, o)} |->
                       IF node.occupiedBy = Null THEN [m |-> mm, rect |-> rr, node |-> o]
                  ELSE LET rConstraint == resolveConstraints(node, mm.isMixed, rr)
                           nConstraint == resolveConstraints(node, mm.isMixed, node)
                           m1 == IF ~isAnchored(rConstraint) \/ ~anchoredVCenter(nConstraint)
                                 THEN consolidateSingleNode(mm, o) ELSE mm
                       IN
                       With([s \in {splitNode(m1, o, options[i].split, rr, reduction)} |->
                            IF s.node # NoNode \/ s.m.err THEN s
                       ELSE Try(s.m, s.rect, i + 1)])])])
  IN
  Try(m, r, 1)

\* a node with the nodes below it, as a value
RECURSIVE Subtree(_, _)
Subtree(m, o) ==
  LET node == At(m, o)
  IN
  [node EXCEPT !.child = [i \in DOMAIN node.child |-> Subtree(m, node.child[i])], !.alias = 0]

\* this._nodes as a value
NodeList(m) == [i \in DOMAIN m.nodes |-> Subtree(m, m.nodes[i])]

\* history kept for the properties, not read by the packer: m.restored stays
\* true as long as every failed attempt left this._nodes as it was before
AfterFailedAttempt(m, before) ==
  [m EXCEPT !.restored = @ /\ NodeList(m) = NodeList(before)]

\* one turn of the while loop of packer for one rectangle: again tells
\* that the rectangle was not placed and is tried once more
placeAttempt(m, r, reduction, iteration) ==
  With([m0 \in {[m EXCEPT !.pass = IF iteration = MaxIterations - 1 THEN 2 ELSE @, !.device = FALSE]} |->
  With([p \in {packRect(m0, r, reduction, NoReduction)} |->
  IF p.node # NoNode THEN LET found == [RejectNodes(p.m, p.m.dropped) EXCEPT !.dropped = <<>>]
                          IN
                          [again |-> FALSE, result |-> [m |-> found, rect |-> p.rect, node |-> p.node]]
  ELSE With([m1 \in {RestoreNodes(p.m, m0.heap, m0.nodes)} |->
       With([r1 \in {[p.rect EXCEPT !.x0 = r.x0, !.y0 = r.y0, !.width = r.width, !.height = r.height]} |->
            IF ~m1.device
         THEN [again |-> FALSE, result |-> [m |-> AfterFailedAttempt(m1, m0), rect |-> r1, node |-> NoNode]]
       ELSE With([t \in {trySplitOptions(m1, r1, findSplitNodeOptions(m1, r1, reduction), reduction)} |->
                 IF t.m.err THEN [again |-> FALSE, result |-> t]
            ELSE      IF t.node # NoNode
                   THEN [again |-> FALSE,
                         result |-> [m |-> t.m, rect |-> t.rect, node |-> FindById(t.m, At(t.m, t.node).id)]]
                 ELSE LET currentpass == m.pass
                      IN
                      [again |-> TRUE,
                       result |-> [m |-> AfterFailedAttempt([t.m EXCEPT !.pass = currentpass], m0),
                                   rect |-> t.rect, node |-> NoNode]]])])])])])

\* the while loop of packer for one rectangle: up to reduceIterations attempts
RECURSIVE placeRect(_, _, _, _)
placeRect(m, r, reduction, iteration) ==
  IF iteration >= MaxIterations THEN [m |-> m, rect |-> r, node |-> NoNode]
  ELSE With([attempt \in {placeAttempt(m, r, reduction, iteration)} |->
       IF attempt.again
       THEN placeRect(attempt.result.m, attempt.result.rect, Reduce(m, reduction), iteration + 1)
       ELSE attempt.result])

\* the cuts of a region along one axis: the edges of the region and of the
\* live nodes, and the intervals between neighbouring cuts
Intervals(cuts) == {c \in cuts \X cuts : c[1] < c[2] /\ ~\E x \in cuts : c[1] < x /\ x < c[2]}

\* the live nodes of a region, by their place in this._nodes
LiveOf(m, region) ==
  {i \in DOMAIN m.nodes : At(m, m.nodes[i]).deviceId = region.deviceId
                           /\ At(m, m.nodes[i]).regionId = region.regionId}

XCuts(m, region) ==
  {region.x0, region.x0 + region.width}
    \cup UNION {{At(m, m.nodes[i]).x0, At(m, m.nodes[i]).x0 + At(m, m.nodes[i]).width} : i \in LiveOf(m, region)}

YCuts(m, region) ==
  {region.y0, region.y0 + region.height}
    \cup UNION {{At(m, m.nodes[i]).y0, At(m, m.nodes[i]).y0 + At(m, m.nodes[i]).height} : i \in LiveOf(m, region)}

\* the rectangle lies inside the box
Inside(rect, box) ==
  /\ box.x0 <= rect.x0 /\ rect.x0 + rect.width <= box.x0 + box.width
  /\ box.y0 <= rect.y0 /\ rect.y0 + rect.height <= box.y0 + box.height

\* the two rectangles share no area
Apart(e, f) ==
  \/ e.x0 + e.width <= f.x0 \/ f.x0 + f.width <= e.x0
  \/ e.y0 + e.height <= f.y0 \/ f.y0 + f.height <= e.y0

\* the live nodes of the region lie inside its box and no two overlap
Disjoint(m, region) ==
  /\ \A i \in LiveOf(m, region) : Inside(At(m, m.nodes[i]), region)
  /\ \A i, j \in LiveOf(m, region) : i # j => Apart(At(m, m.nodes[i]), At(m, m.nodes[j]))

\* the live nodes of the region tile its box: each lies inside, and every
\* cell between neighbouring cuts is in exactly one of them
TilesRegion(m, region) ==
  /\ \A i \in LiveOf(m, region) : Inside(At(m, m.nodes[i]), region)
  /\ \A cx \in Intervals(XCuts(m, region)) :
       \A cy \in Intervals(YCuts(m, region)) :
         Cardinality({i \in LiveOf(m, region) :
                        Inside([x0 |-> cx[1], y0 |-> cy[1], width |-> cx[2] - cx[1], height |-> cy[2] - cy[1]],
                               At(m, m.nodes[i]))}) = 1

\* the box of the region a node is part of
Box(node) ==
  [deviceId |-> node.deviceId, regionId |-> node.regionId, x0 |-> 0, y0 |-> 0,
   width |-> node.boundingWidth, height |-> node.boundingHeight]

\* history kept for the properties, not read by the packer.  After every
\* rectangle: m.tiled stays true as long as the live nodes tile every region,
\* m.disjoint as long as they lie inside their region and do not overlap
AfterStep(m) ==
  IF m.err THEN m
  ELSE [m EXCEPT !.tiled = @ /\ \A k \in DOMAIN m.nodes : TilesRegion(m, Box(At(m, m.nodes[k]))),
                 !.disjoint = @ /\ \A k \in DOMAIN m.nodes : Disjoint(m, Box(At(m, m.nodes[k])))]

\* PackerUtils.updateRect
updateRect(m, item, rectlist) ==
  LET it == At(m, item)
  IN
  With([orig \in {IF it.occupiedBy = Null THEN At(m, it.child[1]) ELSE it} |->
  With([i \in {FirstIdx(rectlist, LAMBDA rect : rect.componentId = orig.occupiedBy)} |->
  IF i = 0 THEN rectlist
  ELSE [rectlist EXCEPT ![i] = [@ EXCEPT !.x0 = orig.x0, !.y0 = orig.y0, !.width = orig.width,
                                         !.height = orig.height, !.deviceId = orig.deviceId,
                                         !.regionId = orig.regionId]]])])

\* item.child[0] of an unoccupied item without children is a TypeError
updateFails(m, item) == At(m, item).occupiedBy = Null /\ At(m, item).child = <<>>

\* the body of rects.forEach of packer for the rectangle r.  The result holds
\* the machine, the rectangle and the list it was put on: "packed",
\* "doesntFit", "nodevice" or "nodep"
packOne(m, r, originalReduction, lastPlacedRegion) ==
  IF ~packedDependencies(r, m.packed)
    THEN [m |-> m, rect |-> r, list |-> "nodep", lastPlacedRegion |-> lastPlacedRegion]
  ELSE With([p \in {placeRect(m, r, originalReduction, 0)} |->
            IF p.m.err
         THEN [m |-> p.m, rect |-> r, list |-> "doesntFit", lastPlacedRegion |-> lastPlacedRegion]
       ELSE LET o == p.node
            IN
                 IF o = NoNode
              THEN [m |-> p.m,
                    rect |-> [p.rect EXCEPT !.width = r.width, !.height = r.height, !.x0 = DontCare, !.y0 = DontCare],
                    list |-> IF p.m.device THEN "doesntFit" ELSE "nodevice",
                    lastPlacedRegion |-> lastPlacedRegion]
            ELSE With([node \in {At(p.m, o)} |->
                 With([constraints \in {resolveConstraints(node, m.isMixed, p.rect)} |->
                 With([adjust \in {HasAspect(constraints.aspect) /\ ~aspectMatches(node.width, node.height, constraints.aspect)} |->
                 With([a \in {aspect_adjust_nofail(p.m, o,
                                                   [p.rect EXCEPT !.x0 = node.x0, !.y0 = node.y0, !.width = node.width,
                                                                  !.height = node.height],
                                                   IF node.width >= node.height THEN "width" ELSE "height",
                                                   toPixelResolution(constraints.minSize, minRect))} |->
                 LET m1 == IF adjust THEN a.m ELSE p.m
                     o1 == IF adjust THEN a.node ELSE o
                 IN
                 With([node1 \in {At(m1, o1)} |->
                 With([r1 \in {[(IF adjust THEN a.rect ELSE p.rect) EXCEPT !.x0 = node1.x0, !.y0 = node1.y0]} |->
                 With([minsize \in {toPixelResolutionA(constraints.minSize, minRect, constraints.aspect)} |->
                 LET small == node1.width < minsize.width \/ node1.height < minsize.height
                 IN
                      IF small
                   THEN [m |-> consolidateWhiteNodes(m1, lastPlacedRegion),
                         rect |-> [r1 EXCEPT !.x0 = DontCare, !.y0 = DontCare, !.width = DontCare, !.height = DontCare],
                         list |-> "doesntFit", lastPlacedRegion |-> lastPlacedRegion]
                 ELSE With([r2 \in {[r1 EXCEPT !.width = node1.width, !.height = node1.height, !.deviceId = node1.deviceId,
                                               !.regionId = node1.regionId, !.boundingWidth = node1.boundingWidth,
                                               !.boundingHeight = node1.boundingHeight]} |->
                      LET m2 == [Put(m1, o1, [node1 EXCEPT !.occupiedBy = r2.componentId, !.constraints = r2.constraints,
                                                           !.personalconstraints = r2.personalconstraints])
                                 EXCEPT !.updates = Append(@, o1),
                                        !.numVideo[node1.deviceId] = IF constraints.video THEN @ + 1 ELSE @,
                                        !.numAudio[node1.deviceId] = IF constraints.audio THEN @ + 1 ELSE @]
                      IN
                      [m |-> consolidateWhiteNodes([m2 EXCEPT !.packed = Append(@, r2.componentId)], r2.regionId),
                       rect |-> r2, list |-> "packed", lastPlacedRegion |-> r2.regionId]])])])])])])])])])

\* packer: the rectangles in their final state with the list each ended on,
\* and the machine
packer(m, trees, rects, originalReduction) ==
  LET devs == {At(m, trees[i]).deviceId : i \in DOMAIN trees}
      m0 == [m EXCEPT !.updates = <<>>, !.nodes = trees, !.packed = <<>>,
                      !.numAudio = [d \in devs |-> 0], !.numVideo = [d \in devs |-> 0]]
      RECURSIVE Each(_, _, _, _, _)
      Each(mm, rs, lists, last, i) ==
        IF i > Len(rects) \/ mm.err THEN [m |-> mm, rects |-> rs, lists |-> lists]
        ELSE With([one \in {packOne(mm, rs[i], originalReduction, last)} |->
             Each(AfterStep(one.m), [rs EXCEPT ![i] = one.rect], Append(lists, one.list),
                  one.lastPlacedRegion, i + 1)])
  IN
  With([each \in {Each(m0, rects, <<>>, Null, 1)} |->
  LET crashed == each.m.err \/ \E k \in DOMAIN each.m.updates : updateFails(each.m, each.m.updates[k])
  IN
  IF crashed
    THEN [m |-> [each.m EXCEPT !.err = TRUE], rects |-> <<>>, notPlaced |-> <<>>, noDevice |-> <<>>,
          noDependent |-> <<>>, all |-> <<>>]
  ELSE LET RECURSIVE Update(_, _)
           Update(rs, k) ==
             IF k > Len(each.m.updates) THEN rs
             ELSE Update(updateRect(each.m, each.m.updates[k], rs), k + 1)
           final == Update(each.rects, 1)
       IN
       With([all \in {[i \in DOMAIN final |-> [final[i] EXCEPT !.list = each.lists[i]]]} |->
       LET Pick(list) == SelectSeq(all, LAMBDA x : x.list = list)
       IN
       [m |-> each.m, rects |-> Pick("packed"), notPlaced |-> Pick("doesntFit"),
        noDevice |-> Pick("nodevice"), noDependent |-> Pick("nodep"), all |-> all]])])

\* ------------------------------------------------------------------------
\* the passes of the packer
\* ------------------------------------------------------------------------
\* history kept for the properties, not read by the packer: what pass three
\* had before it, what it packed, and whether it took the new arrangement
NoPassThree == [ran |-> FALSE, accepted |-> FALSE, before |-> <<>>, after |-> <<>>]

PassThree(m, accepted, before, after) ==
  [m EXCEPT !.passThree = [ran |-> TRUE, accepted |-> accepted, before |-> before, after |-> after]]

\* the packer after construction
NewPacker(packingregions, isMixed) ==
  [heap |-> <<>>, nextOid |-> 1, uuidCtr |-> 0, nodes |-> <<>>, updates |-> <<>>, dropped |-> <<>>,
   packed |-> <<>>, numVideo |-> <<>>, numAudio |-> <<>>, device |-> FALSE, pass |-> 1,
   shuffling |-> FALSE, reduceFactor |-> "rate", isMixed |-> isMixed, regions |-> packingregions,
   err |-> FALSE, restored |-> TRUE, tiled |-> TRUE, disjoint |-> TRUE, merges |-> {},
   passThree |-> NoPassThree, attempts |-> <<>>]

\* PackerUtils.buildtreelist: a root per region.  shared tells whether the
\* regions are the packing regions themselves or clones of them
buildtreelist(m, regions, shared) ==
  LET RECURSIVE Build(_, _, _)
      Build(mm, os, i) ==
        IF i > Len(regions) THEN [m |-> mm, trees |-> os]
        ELSE Build(Alloc(uuid(mm), TreeNode(regions[i], mm.uuidCtr + 1, IF shared THEN i ELSE 0)),
                   Append(os, mm.nextOid), i + 1)
  IN
  Build(m, <<>>, 1)

\* PackerUtils.regionsToRebuild; err where region.deviceId is read of no region
regionsToRebuild(rects, packingregions) ==
  With([valids \in {Flatten([i \in DOMAIN rects |-> rects[i].constraints.valid])} |->
  LET RECURSIVE Go(_, _)
      Go(regions, i) ==
        IF i > Len(valids) THEN [regions |-> regions, err |-> FALSE]
        ELSE With([k \in {FirstIdx(packingregions, LAMBDA r : r.regionId = valids[i])} |->
             IF k = 0 THEN (IF regions = <<>> THEN Go(regions, i + 1) ELSE [regions |-> regions, err |-> TRUE])
             ELSE LET region == packingregions[k]
                      listed == /\ \E j \in DOMAIN regions : regions[j].regionId = region.regionId
                                /\ \E j \in DOMAIN regions : regions[j].deviceId = region.deviceId
                  IN
                       IF listed THEN Go(regions, i + 1)
                  ELSE Go(Append(regions, region), i + 1)])
  IN
  Go(<<>>, 1)])

\* PackerUtils.prunePrefRegions with reallyPrune; the trees are references
prunePrefRegions(m, trees, rects) ==
  LET TreeOf(r) == FirstIdx(trees, LAMBDA o : At(m, o).regionId = r.regionId /\ At(m, o).deviceId = r.deviceId)
  IN
  With([pref \in {SelectSeq(rects, LAMBDA r : r.constraints.prefSize.width > DontCare
                                              \/ r.constraints.prefSize.height > DontCare)} |->
  LET found == SelectSeq([i \in DOMAIN pref |-> TreeOf(pref[i])], LAMBDA k : k # 0)
  IN
  With([prunedTrees \in {Uniq([i \in DOMAIN found |-> trees[found[i]]])} |->
  IF prunedTrees = <<>>
    THEN [trees |-> trees, rects |-> rects, prunedTrees |-> <<>>, prunedRects |-> pref]
  ELSE LET OnPruned(r) == \E i \in DOMAIN prunedTrees :
                             /\ At(m, prunedTrees[i]).regionId = r.regionId
                             /\ At(m, prunedTrees[i]).deviceId = r.deviceId
       IN
       With([left \in {SelectSeq(rects, LAMBDA r : ~Contains(Ids(pref), r.componentId))} |->
       LET rrects == SelectSeq(left, OnPruned)
       IN
       [trees |-> SelectSeq(trees, LAMBDA o : ~Contains(prunedTrees, o)),
        rects |-> SelectSeq(left, LAMBDA r : ~OnPruned(r)),
        prunedTrees |-> prunedTrees, prunedRects |-> pref \o rrects]])])])

\* __clearLayout
clearLayout(rect) ==
  [rect EXCEPT !.x0 = DontCare, !.y0 = DontCare, !.width = DontCare, !.height = DontCare,
               !.deviceId = Null, !.regionId = Null]

\* the update of _packer_pass for one consolidated node
applyConsolidated(m, item, rect) ==
  With([_rectConstraints \in {resolveConstraints(item, m.isMixed, rect)} |->
  With([moved \in {[rect EXCEPT !.x0 = item.x0, !.y0 = item.y0, !.width = item.width, !.height = item.height]} |->
  IF ~HasAspect(_rectConstraints.aspect) THEN moved
  ELSE With([corrected \in {correctedSize(moved.width, moved.height, _rectConstraints.margin, _rectConstraints.aspect,
                                          item.width, item.height)} |->
       With([minsize \in {toPixelResolution(_rectConstraints.minSize, minRect)} |->
            IF corrected.width >= minsize.width /\ corrected.height >= minsize.height
         THEN [moved EXCEPT !.width = corrected.width, !.height = corrected.height]
       ELSE [moved EXCEPT !.x0 = DontCare, !.y0 = DontCare, !.width = DontCare, !.height = DontCare]])])])])

\* _packer_pass: packer, then consolidateNodes and the updates it returns
_packer_pass(m, nodes, rects, reduction, force) ==
  With([pass \in {packer(m, nodes, rects, reduction)} |->
  IF pass.m.err THEN pass
  ELSE With([c \in {consolidateNodes(pass.m, force)} |->
       LET RECURSIVE Apply(_, _)
           Apply(rs, k) ==
             IF k > Len(c.updates) THEN [rects |-> rs, err |-> FALSE]
             ELSE With([item \in {At(c.m, c.updates[k])} |->
                  IF item.occupiedBy = Null THEN Apply(rs, k + 1)
                  ELSE With([i \in {FirstIdx(rs, LAMBDA r : r.list = "packed" /\ r.componentId = item.occupiedBy)} |->
                            IF i = 0 THEN [rects |-> rs, err |-> TRUE]
                       ELSE Apply([rs EXCEPT ![i] = applyConsolidated(c.m, item, rs[i])], k + 1)])])
       IN
       With([applied \in {Apply(pass.all, 1)} |->
            IF applied.err THEN [pass EXCEPT !.m.err = TRUE]
       ELSE [pass EXCEPT !.m = c.m, !.all = applied.rects,
                         !.rects = SelectSeq(applied.rects, LAMBDA r : r.list = "packed")]])])])

\* rectSize(constraints) without a bounding box: 1000 x 1000
DefaultBox == [boundingWidth |-> Px(1000), boundingHeight |-> Px(1000)]

\* a node where a rect is expected has no bounding box: a comparison with
\* its undefined boundingWidth is false, as with this box
NoBounds == [boundingWidth |-> Px(100000), boundingHeight |-> Px(100000)]

\* LayoutPacker.init
init(rects) ==
  [i \in DOMAIN rects |->
     With([size \in {rectSize(rects[i].constraints, DefaultBox)} |->
     [rects[i] EXCEPT !.x0 = DontCare, !.y0 = DontCare,
                      !.width = IF rects[i].constraints.prefSize.width = DontCare THEN DontCare
                                ELSE size.width,
                      !.height = IF rects[i].constraints.prefSize.height = DontCare THEN DontCare
                                 ELSE size.height]])]

\* attemptTwo: the packing passed in, changed, and the machine
attemptTwo(m, packed, regions, rectangles, reduction) ==
  With([b \in {buildtreelist(m, regions, FALSE)} |->
  LET regionlist == [i \in DOMAIN regions |-> regions[i].regionId]
      InList(r) == Contains(regionlist, r.regionId) \/ Contains(regionlist, r.deviceId)
      takeTwo == packed.notPlaced \o SelectSeq(packed.rects, InList) \o SelectSeq(packed.noDependent, InList)
      reclist == [i \in DOMAIN takeTwo |->
                    rectangles[FirstIdx(rectangles, LAMBDA rect : rect.componentId = takeTwo[i].componentId)]]
      sorted == prioritizeRects(reclist, <<NoBounds>>)
  IN
  With([newpacked \in {packer(b.m, b.trees, [i \in DOMAIN sorted |-> clearLayout(sorted[i])], reduction)} |->
  [m |-> newpacked.m,
   rects |-> SelectSeq(packed.rects, LAMBDA r : ~InList(r)) \o newpacked.rects,
   notPlaced |-> newpacked.notPlaced,
   noDevice |-> packed.noDevice,
   noDependent |-> newpacked.noDependent,
   all |-> newpacked.all]])])

\* PackerUtils.orderedTopLeft: sorts the list; no occupied node after a free one
orderedTopLeft(m) ==
  With([sorted \in {SortNodes(m, topleft)} |->
  LET ok == \A i, j \in DOMAIN sorted.nodes :
              i < j /\ At(m, sorted.nodes[i]).occupiedBy = Null => At(m, sorted.nodes[j]).occupiedBy = Null
  IN
  [m |-> IF Len(m.nodes) < 2 THEN m ELSE sorted, ordered |-> Len(m.nodes) < 2 \/ ok]])

\* node.occupiedBy = null for every listed node
clearNodeOccupants(m) ==
  LET RECURSIVE Go(_, _)
      Go(mm, i) == IF i > Len(m.nodes) THEN mm ELSE Go(SetOccupant(mm, m.nodes[i], Null), i + 1)
  IN
  Go(m, 1)

\* the state in which the objects of the list rs are after a pass over them
StateAfter(rs, all) ==
  [i \in DOMAIN rs |->
     With([k \in {FirstIdx(all, LAMBDA r : r.componentId = rs[i].componentId)} |->
     IF k = 0 THEN rs[i] ELSE all[k]])]

\* __beautify: the rects of the packing it returns, and the machine
beautify(m, packed, reduction) ==
  With([pruner \in {prunePrefRegions(m, m.nodes, packed.rects)} |->
  IF Len(pruner.trees) < 1 \/ Len(pruner.rects) < 2 THEN [m |-> m, rects |-> packed.rects]
  ELSE With([m1 \in {clearNodeOccupants(SortNodes([m EXCEPT !.nodes = pruner.trees], larger_tl))} |->
       LET cleared == SortBy([i \in DOMAIN pruner.rects |-> clearLayout(pruner.rects[i])],
                             LAMBDA a, b : larger_tl(a, b) > 0)
       IN
       With([beautified \in {_packer_pass([m1 EXCEPT !.shuffling = TRUE], m1.nodes, cleared, reduction, FALSE)} |->
       LET Crashed == [m |-> [m EXCEPT !.err = TRUE], rects |-> <<>>]
       IN
            IF beautified.m.err THEN Crashed
       ELSE LET firstPass == packed.rects
                utilized1 == computeFillSpace(firstPass)
            IN
            With([utilized2 \in {computeFillSpace(beautified.rects)} |->
            With([shuffled \in {StateAfter(pruner.prunedRects, beautified.all)} |->
            \* choose packing with least white space
            LET Choose(last, fill, pruned) ==
                  LET rects == last.rects \o pruned
                      total == AddArea(fill, computeFillSpace(pruned))
                  IN
                  IF Len(rects) < Len(firstPass) \/ CmpArea(total, utilized1) < 0
                    THEN [m |-> [last.m EXCEPT !.shuffling = FALSE], rects |-> firstPass]
                  ELSE [m |-> [last.m EXCEPT !.shuffling = FALSE], rects |-> rects]
            IN
            With([ord \in {orderedTopLeft(beautified.m)} |->
            IF ord.ordered THEN Choose(beautified, utilized2, shuffled)
            ELSE \* force top left ordering
                 With([m2 \in {clearNodeOccupants(SortNodes([ord.m EXCEPT !.pass = 4], larger_tl))} |->
                 With([again \in {SortBy([i \in DOMAIN beautified.rects |-> clearLayout(beautified.rects[i])],
                                         LAMBDA a, b : largerDimArea(a, b) > 0)} |->
                 With([passThree \in {_packer_pass(m2, m2.nodes, again, reduction, FALSE)} |->
                 IF passThree.m.err THEN Crashed
                 ELSE With([utilized3 \in {computeFillSpace(passThree.rects)} |->
                      LET better == Len(again) <= Len(passThree.rects) \/ CmpArea(utilized3, utilized2) >= 0
                      IN
                      With([pruned \in {StateAfter(shuffled, passThree.all)} |->
                           IF better THEN Choose(passThree, utilized3, pruned)
                      ELSE Choose([passThree EXCEPT !.rects = StateAfter(again, passThree.all)],
                                  utilized2, pruned)])])])])])])])])])])])

\* history kept for the properties, not read by the packer: the rectangles
\* each attempt of pass two placed and those it did not
Attempted(attempt) ==
  [attempt EXCEPT !.m.attempts = Append(@, [rects |-> attempt.rects, notPlaced |-> attempt.notPlaced])]

\* pass two of _pack: attempts on the regions with rectangles not placed,
\* each with a smaller reduction
RECURSIVE passTwoLoop(_, _, _, _, _, _)
passTwoLoop(m, passTwo, bestAttempt, initializedRects, iteration, reduction) ==
  IF iteration > MaxIterations THEN [m |-> m, best |-> bestAttempt, reduction |-> reduction]
  ELSE With([rebuild \in {regionsToRebuild(passTwo.notPlaced, m.regions)} |->
            IF rebuild.err THEN [m |-> [m EXCEPT !.err = TRUE], best |-> bestAttempt, reduction |-> reduction]
       ELSE      IF rebuild.regions = <<>> THEN [m |-> m, best |-> bestAttempt, reduction |-> reduction]
            ELSE With([nextAttempt \in {Attempted(attemptTwo(m, passTwo, rebuild.regions, initializedRects, reduction))} |->
                 LET best == IF Len(nextAttempt.notPlaced) < Len(bestAttempt.notPlaced) THEN nextAttempt ELSE bestAttempt
                 IN
                      IF nextAttempt.m.err \/ Len(nextAttempt.notPlaced) = 0
                   THEN [m |-> nextAttempt.m, best |-> best, reduction |-> reduction]
                 ELSE passTwoLoop(nextAttempt.m, nextAttempt, best, initializedRects, iteration + 1,
                                  Reduce(nextAttempt.m, reduction))])])

\* pass three of _pack: the rects that fit are packed again from scratch,
\* trying to cover more space
passThreePack(m, packerPass) ==
  With([b \in {buildtreelist(m, m.regions, TRUE)} |->
  With([pruner \in {prunePrefRegions(b.m, b.trees, packerPass.rects)} |->
  IF ~(Len(pruner.trees) > 0 /\ Len(pruner.rects) > 1) THEN [packerPass EXCEPT !.m = [m EXCEPT !.pass = 3]]
  ELSE LET sorted == SortBy([i \in DOMAIN pruner.rects |-> clearLayout(pruner.rects[i])],
                            LAMBDA x, y : largerDimArea(toPixelResolution(x.constraints.minSize, minRect),
                                                        toPixelResolution(y.constraints.minSize, minRect)) > 0)
       IN
       With([newPass \in {_packer_pass([b.m EXCEPT !.pass = 3, !.nodes = <<>>], pruner.trees, sorted, NoReduction, TRUE)} |->
            IF newPass.m.err THEN [packerPass EXCEPT !.m = newPass.m]
       ELSE With([rects \in {newPass.rects \o pruner.prunedRects} |->
            LET fill1 == computeFillSpace(packerPass.rects)
                fill2 == computeFillSpace(rects)
            IN
                 IF \/ Len(rects) > Len(packerPass.rects)
                    \/ CmpArea(fill2, fill1) >= 0 /\ Len(rects) = Len(packerPass.rects)
              THEN LET notPlaced == newPass.notPlaced \o packerPass.notPlaced
                   IN
                   [m |-> PassThree([newPass.m EXCEPT !.nodes = @ \o pruner.prunedTrees], TRUE, packerPass.rects, rects),
                    rects |-> rects, notPlaced |-> notPlaced,
                    noDependent |-> notPlaced \o packerPass.noDependent,
                    noDevice |-> notPlaced \o packerPass.noDevice,
                    all |-> newPass.all]
            ELSE [packerPass EXCEPT !.m = PassThree(RestoreNodes(newPass.m, m.heap, m.nodes), FALSE,
                                                    packerPass.rects, rects)]])])])])

\* setReductionRate: "rate" is ReductionRate, 0.8, "single" SingleReductionRate,
\* 0.7, and "unit" the rate 1.0
setReductionRate(p, reducerate) == [p EXCEPT !.reduceFactor = reducerate]

\* _pack of the packer p: the layout, the ids not placed and those without
\* device
packWith(p, packingregions, rectangles, isMixed) ==
  IF Len(packingregions) < 1 \/ Len(rectangles) < 1
    THEN [layout |-> <<>>, notPlaced |-> <<>>, noDevice |-> <<>>, err |-> FALSE, restored |-> TRUE,
          tiled |-> TRUE, disjoint |-> TRUE, merges |-> {}, passThree |-> NoPassThree, first |-> <<>>, attempts |-> <<>>, retained |-> <<>>]
  ELSE With([initializedRects \in {init(rectangles)} |->
       With([rects \in {sortRects(initializedRects, packingregions, FALSE)} |->
       \* pass one: pack as much as possible
       LET m0 == [p EXCEPT !.reduceFactor = "single", !.pass = 1]
       IN
       With([b \in {buildtreelist(m0, packingregions, TRUE)} |->
       With([one \in {packer(b.m, b.trees, rects, NoReduction)} |->
       \* pass two: reduce component sizes and try to repack more
       LET m1 == [one.m EXCEPT !.reduceFactor = p.reduceFactor, !.pass = 2]
       IN
       With([two \in {IF one.notPlaced = <<>> THEN [m |-> m1, best |-> one, reduction |-> NoReduction]
                      ELSE passTwoLoop(m1, one, one, initializedRects, 1, NoReduction)} |->
       With([second \in {IF Len(two.best.notPlaced) < Len(one.notPlaced) THEN [two.best EXCEPT !.m = two.m]
                         ELSE [one EXCEPT !.m = two.m]} |->
       LET reduction == two.reduction
       IN
       \* using just the rects that fit, try to cover more space
       With([third \in {IF ~second.m.err /\ hasWhiteSpace(second.rects, second.m.regions)
                        THEN passThreePack(second.m, second) ELSE second} |->
       \* shuffle the rects into the cut nodes
       With([final \in {IF ~third.m.err /\ hasWhiteSpace(third.rects, third.m.regions)
                        THEN With([shuffle \in {beautify(third.m, third, reduction)} |->
                             [third EXCEPT !.rects = shuffle.rects, !.m = shuffle.m]])
                        ELSE third} |->
            IF final.m.err
         THEN [layout |-> <<>>, notPlaced |-> <<>>, noDevice |-> <<>>, err |-> TRUE,
               restored |-> final.m.restored, tiled |-> final.m.tiled, disjoint |-> final.m.disjoint,
               merges |-> final.m.merges, passThree |-> final.m.passThree,
               first |-> one.rects, attempts |-> final.m.attempts, retained |-> second.rects]
       ELSE LET skipped == Difference(Ids(rectangles), Ids(rects))
            IN
            [layout |-> final.rects,
             notPlaced |-> Union(skipped, Ids(Union(final.notPlaced, final.noDependent))),
             noDevice |-> Ids(final.noDevice), err |-> FALSE, restored |-> final.m.restored,
             tiled |-> final.m.tiled, disjoint |-> final.m.disjoint, merges |-> final.m.merges,
             passThree |-> final.m.passThree,
             first |-> one.rects, attempts |-> final.m.attempts, retained |-> second.rects]])])])])])])])])

\* _pack of a packer as constructed
_pack(packingregions, rectangles, isMixed) ==
  packWith(NewPacker(packingregions, isMixed), packingregions, rectangles, isMixed)

\* ------------------------------------------------------------------------
\* Context, Device, DMApp: the documents the generator reads
\* ------------------------------------------------------------------------
\* a component's startTime / stopTime that is null
NoTime == -1

\* a constraint as authored: the optional properties carry a has-flag
\* (Globals.defaultComponentConstraint is the constraint of an unknown id)
defaultComponentConstraint ==
  [minSize |-> [width |-> MinDimension * PX, height |-> MinDimension * PX],
   hasPrefSize |-> FALSE, prefSize |-> [width |-> DontCare, height |-> DontCare],
   aspectStr |-> <<>>, priority |-> 1, audio |-> FALSE, video |-> FALSE,
   hasMargin |-> TRUE, margin |-> 0, hasAnchor |-> FALSE, anchor |-> {},
   hasTarget |-> FALSE, targetRegions |-> <<>>, componentDependency |-> <<>>,
   touchInteraction |-> FALSE]

\* Context.getDevice
getDevice(ctx, deviceId) ==
  LET i == FirstIdx(ctx.devices, LAMBDA d : d.deviceId = deviceId)
  IN
  ctx.devices[i]

hasDevice(ctx, deviceId) == \E i \in DOMAIN ctx.devices : ctx.devices[i].deviceId = deviceId

\* Context.getDeviceList
getDeviceList(ctx) == [i \in DOMAIN ctx.devices |-> ctx.devices[i].deviceId]

\* Context.getDeviceGroups: the groups in order of first appearance, typed
\* communal, personal or mixed
getDeviceGroups(ctx) ==
  With([ids \in {Uniq([i \in DOMAIN ctx.devices |-> ctx.devices[i].group])} |->
  LET Of(g) == {ctx.devices[i].caps.communalDevice : i \in {j \in DOMAIN ctx.devices : ctx.devices[j].group = g}}
  IN
  [k \in DOMAIN ids |->
     [id |-> ids[k],
      type |-> IF Of(ids[k]) = {TRUE} THEN "communal"
               ELSE IF Of(ids[k]) = {FALSE} THEN "personal" ELSE "mixed"]]])

\* Context.getGroupDevices
getGroupDevices(ctx, groupId) ==
  getDeviceList([devices |-> SelectSeq(ctx.devices, LAMBDA d : d.group = groupId)])

\* a device that is taken to meet every constraint
meetsAnyConstraints(device, constraints) == TRUE

\* Device.meetConstraints on an authored constraint; a constraint without
\* margin makes both size comparisons false (NaN)
meetConstraints(device, constraints) ==
  /\ constraints.hasMargin =>
       /\ ~(constraints.minSize.width > device.caps.displayWidth - 2 * constraints.margin)
       /\ ~(constraints.minSize.height > device.caps.displayHeight - 2 * constraints.margin)
  /\ ~(constraints.audio /\ device.caps.concurrentAudio < 1)
  /\ ~(constraints.video /\ device.caps.concurrentVideo < 1)
  /\ ~(constraints.touchInteraction /\ ~device.caps.touchInteraction)

\* DMApp.getComponent: index of the component in dmapp.components, 0 if none
getComponent(dmapp, id) == FirstIdx(dmapp.components, LAMBDA c : c.componentId = id)

\* DMApp.getComponentConstraints
getComponentConstraints(dmapp, constraintId, communal) ==
  With([i \in {FirstIdx(dmapp.constraints, LAMBDA c : c.constraintId = constraintId)} |->
  IF i = 0 THEN defaultComponentConstraint
  ELSE IF communal THEN dmapp.constraints[i].communal ELSE dmapp.constraints[i].personal])

\* the keys of the priorities of an override: the device ids, the group
\* ids and "context"; a priority of -1 stands for a key that is not there
OverrideKeys == {"d1", "d2", "g", "context"}

\* a component without an override for a device type
NoOverride == [has |-> FALSE, scope |-> Undef, priorities |-> [k \in OverrideKeys |-> -1]]

\* DMApp.getPriority: the override of the device type under the key of its
\* scope, else the priority of the constraint (the test for c.constraints
\* never succeeds)
getPriority(dmapp, c, device, devtype) ==
  LET o == c.priorityOverrides[devtype]
  IN
  With([key \in {IF o.scope = "device" THEN device.deviceId
                 ELSE IF o.scope = "group" THEN device.group ELSE "context"} |->
  IF o.has /\ o.priorities[key] # -1 THEN o.priorities[key]
  ELSE getComponentConstraints(dmapp, c.constraintId, devtype = "communal").priority])

resolvePriority(dmapp, c, device, communal) ==
  getPriority(dmapp, c, device, IF communal THEN "communal" ELSE "personal")

\* Util.isLarger
isLarger(box1, box2) ==
  IF box1.width < box2.width THEN 1 ELSE IF box1.width > box2.width THEN -1
  ELSE IF box1.height < box2.height THEN 1 ELSE IF box1.height > box2.height THEN -1 ELSE 0

\* ------------------------------------------------------------------------
\* LayoutGenerator
\* ------------------------------------------------------------------------
\* buildRegionNodeTree: a packing region per logical region, or per device
buildRegionNodeTree(ctx, devices) ==
  LET Node(device, regionId, w, h) ==
        [x0 |-> 0, y0 |-> 0, width |-> w, height |-> h, boundingWidth |-> w, boundingHeight |-> h,
         deviceId |-> device.deviceId, regionId |-> regionId,
         maxVideo |-> device.caps.concurrentVideo, maxAudio |-> device.caps.concurrentAudio,
         communal |-> device.caps.communalDevice, constraints |-> NoCons, personalconstraints |-> NoCons]
      Of(dev) ==
        With([device \in {getDevice(ctx, dev)} |->
        IF Len(device.regions) < 1
        THEN <<Node(device, dev, device.caps.displayWidth, device.caps.displayHeight)>>
        ELSE [k \in DOMAIN device.regions |->
                Node(device, device.regions[k].regionId, device.regions[k].displayWidth,
                     device.regions[k].displayHeight)]])
      RECURSIVE Go(_)
      Go(i) == IF i > Len(devices) THEN <<>> ELSE Of(devices[i]) \o Go(i + 1)
  IN
  Go(1)

\* getAspect: "w:h" parsed to the ratio h / w
getAspect(constraints) ==
  IF constraints.aspectStr = <<>> THEN NoAspect
  ELSE [n |-> constraints.aspectStr[2], d |-> constraints.aspectStr[1]]

\* getPrefSize (components carry no prefSize of their own)
getPrefSize(c, constraints) ==
  IF constraints.hasPrefSize THEN constraints.prefSize ELSE [width |-> DontCare, height |-> DontCare]

\* getPrioritizedComponentList: the components with their constraints
\* attached, by personal priority, anchored ones later, larger minSize first
getPrioritizedComponentList(dmapp, device, grouptype) ==
  With([components \in {[i \in DOMAIN dmapp.components |->
                           [c |-> dmapp.components[i],
                            constraints |-> getComponentConstraints(dmapp, dmapp.components[i].constraintId,
                                              IF grouptype = "mixed" THEN TRUE ELSE device.caps.communalDevice),
                            personalconstraints |-> getComponentConstraints(dmapp, dmapp.components[i].constraintId, FALSE)]]} |->
  IF Len(components) < 2 THEN components
  ELSE LET Cmp(a, b) ==
             With([priorityA \in {getPriority(dmapp, a.c, device, "personal")} |->
             With([priorityB \in {getPriority(dmapp, b.c, device, "personal")} |->
             IF priorityA < priorityB THEN 1 ELSE IF priorityA > priorityB THEN -1
             ELSE IF a.constraints.hasAnchor THEN 1 ELSE IF b.constraints.hasAnchor THEN -1
             ELSE isLarger(toPixelResolution(a.constraints.minSize, minRect),
                           toPixelResolution(b.constraints.minSize, minRect))])])
       IN
       SortBy(components, LAMBDA a, b : Cmp(a, b) > 0)])

\* the regions a constraint is valid for; skip is the list whose members are
\* not added again when the constraint names no target regions
validRegions(ctx, regions, constraints, skip) ==
  LET RECURSIVE Go(_, _)
      Go(valid, i) ==
        IF i > Len(regions) THEN valid
        ELSE LET dev == regions[i]
             IN
             IF ~meetConstraints(getDevice(ctx, dev.deviceId), constraints) THEN Go(valid, i + 1)
             ELSE      IF constraints.hasTarget
                       THEN IF Contains(constraints.targetRegions, dev.regionId)
                            THEN Go(Append(valid, dev.regionId), i + 1) ELSE Go(valid, i + 1)
                  ELSE LET sk == IF skip = <<"self">> THEN valid ELSE skip
                       IN
                            IF ~Contains(sk, dev.regionId) THEN Go(Append(valid, dev.regionId), i + 1)
                       ELSE Go(valid, i + 1)
  IN
  Go(<<>>, 1)

\* the constraints of a packer rectangle, resolved from an authored constraint
packerConstraints(c, constraints, priority, valid) ==
  [defined |-> TRUE, aspect |-> getAspect(constraints), prefSize |-> getPrefSize(c, constraints),
   minSize |-> constraints.minSize, valid |-> valid, priority |-> priority,
   audio |-> constraints.audio, video |-> constraints.video,
   margin |-> IF constraints.hasMargin THEN constraints.margin ELSE 0,
   hasAnchor |-> constraints.hasAnchor, anchor |-> constraints.anchor,
   dependencies |-> constraints.componentDependency]

\* the order of the component list: priority, then size on the first region,
\* then anchors
componentOrder(a, b, regions) ==
  LET pa == a.constraints.priority
      pb == b.constraints.priority
  IN
  IF pa < pb THEN 1 ELSE                        IF pa > pb THEN -1
                         ELSE With([r \in {largerEqual(rectSize(a.constraints, regions[1]), rectSize(b.constraints, regions[1]))} |->
                                   IF r # 0 THEN r
                              ELSE      IF ~b.constraints.hasAnchor THEN 1
                                   ELSE      IF ~a.constraints.hasAnchor THEN -1
                                        ELSE LET anchorA == a.constraints.anchor
                                             IN
                                             IF "top" \in anchorA THEN -1 ELSE LET anchorB == b.constraints.anchor
                                                                               IN
                                                                                                                      IF "top" \in anchorB THEN 1
                                                                               ELSE IF "right" \in anchorA THEN -1 ELSE IF "right" \in anchorB THEN 1
                                                                               ELSE IF "left" \in anchorA THEN -1 ELSE IF "left" \in anchorB THEN 1
                                                                               ELSE IF "bottom" \in anchorA THEN -1 ELSE IF "bottom" \in anchorB THEN 1
                                                                               ELSE -1])

\* a component shown whatever its priority
isVisibleAtAnyPriority(c, priority) == c.visible

\* buildComponentList, visible: the component is shown and its priority is
\* above zero
isVisible(c, priority) == c.visible /\ priority > 0

\* buildComponentList: the visible components with a valid region and a
\* priority above zero as packer rectangles, and the ids of all components
buildComponentList(ctx, dmapp, devicelist, regions, grouptype) ==
  With([device \in {getDevice(ctx, devicelist[1])} |->
  With([components \in {getPrioritizedComponentList(dmapp, device, grouptype)} |->
  LET Entry(e) ==
        With([validregions \in {validRegions(ctx, regions, e.constraints, <<"self">>)} |->
        LET personal ==
              IF grouptype = "mixed"
              THEN packerConstraints(e.c, e.personalconstraints,
                                     resolvePriority(dmapp, e.c, device, FALSE),
                                     validRegions(ctx, regions, e.personalconstraints, validregions))
              ELSE NoCons
        IN
        With([comconstraints \in {packerConstraints(e.c, e.constraints,
                                                    resolvePriority(dmapp, e.c, device,
                                                                    IF grouptype = "mixed" THEN TRUE ELSE device.caps.communalDevice),
                                                    validregions)} |->
        [componentId |-> e.c.componentId, x0 |-> DontCare, y0 |-> DontCare,
         width |-> DontCare, height |-> DontCare, deviceId |-> Undef, regionId |-> Undef,
         boundingWidth |-> 0, boundingHeight |-> 0,
         constraints |-> comconstraints, personalconstraints |-> personal, list |-> "none",
         visible |-> isVisible(e.c, comconstraints.priority)]])])
      entries == [i \in DOMAIN components |-> Entry(components[i])]
  IN
  With([listed \in {SelectSeq(entries, LAMBDA r : Len(r.constraints.valid) > 0 /\ r.visible)} |->
  LET componentlist ==
        [i \in DOMAIN listed |->
           [f \in DOMAIN listed[i] \ {"visible"} |-> listed[i][f]]]
  IN
  [componentlist |-> SortBy(componentlist, LAMBDA a, b : componentOrder(a, b, regions) > 0),
   allIds |-> [i \in DOMAIN components |-> components[i].c.componentId]]])])])

\* == null
IsNull(v) == v = Null \/ v = Undef

\* the layout entry that runLayout makes of packed rectangle c: the dmapp's
\* component with size and position inside the margin
layoutEntry(ctx, dmapp, c, grouptype) ==
  With([component \in {dmapp.components[getComponent(dmapp, c.componentId)]} |->
  With([componentConstraints \in {IF grouptype = "mixed" /\ ~getDevice(ctx, c.deviceId).caps.communalDevice
                                  THEN c.personalconstraints ELSE c.constraints} |->
  [componentId |-> c.componentId, startTime |-> component.startTime, stopTime |-> component.stopTime,
   hasSize |-> TRUE,
   size |-> [width |-> c.width - 2 * componentConstraints.margin,
             height |-> c.height - 2 * componentConstraints.margin],
   hasPosition |-> TRUE,
   position |-> [x |-> c.x0 + componentConstraints.margin, y |-> c.y0 + componentConstraints.margin],
   priority |-> componentConstraints.priority,
   deviceId |-> IF IsNull(c.deviceId) THEN Null ELSE c.deviceId,
   regionId |-> IF ~IsNull(c.regionId) THEN c.regionId
                ELSE IF IsNull(c.deviceId) THEN Null ELSE c.deviceId]])])

\* truncateLayoutSizes on one entry: Math.round of the numbers present
truncateEntry(comp) ==
  [comp EXCEPT !.size = IF comp.hasSize
                        THEN [width |-> Round(comp.size.width), height |-> Round(comp.size.height)]
                        ELSE comp.size,
               !.position = IF comp.hasPosition
                            THEN [x |-> Round(comp.position.x), y |-> Round(comp.position.y)]
                            ELSE comp.position]

\* postProcess: a regionId equal to the deviceId is purged, sizes in pixels
\* are made integral
postProcess(ctx, layout) ==
  [layout EXCEPT !.devices =
     [d \in DOMAIN layout.devices |->
        [layout.devices[d] EXCEPT !.components =
           [k \in DOMAIN layout.devices[d].components |->
              LET comp == layout.devices[d].components[k]
              IN
              truncateEntry([comp EXCEPT !.regionId = IF comp.deviceId = comp.regionId THEN Null
                                                       ELSE comp.regionId])]]]]

\* runLayout: the layout of one device group added to layout
runLayout(ctx, dmapp, layout, devicelist, groupname, grouptype) ==
  With([regions \in {buildRegionNodeTree(ctx, devicelist)} |->
  IF Len(regions) = 0 THEN layout
  ELSE With([clist \in {buildComponentList(ctx, dmapp, devicelist, regions, grouptype)} |->
            IF Len(clist.componentlist) = 0
         THEN IF Len(clist.allIds) > 0
              THEN [layout EXCEPT !.notPlaced =
                      Append(@, [group |-> groupname, status |-> "incompatible", components |-> clist.allIds])]
              ELSE layout
       ELSE With([packed \in {_pack(regions, clist.componentlist, grouptype = "mixed")} |->
            LET broken == \E i \in DOMAIN packed.layout :
                            grouptype = "mixed" /\ IsNull(packed.layout[i].deviceId)
            IN
                 IF packed.err \/ broken THEN [layout EXCEPT !.err = TRUE]
            ELSE With([nodevice \in {Union(Difference(clist.allIds, Ids(clist.componentlist)), packed.noDevice)} |->
                 With([l1 \in {IF Len(nodevice) > 0
                               THEN Append(layout.notPlaced, [group |-> groupname, status |-> "incompatible", components |-> nodevice])
                               ELSE layout.notPlaced} |->
                 With([l2 \in {IF Len(packed.notPlaced) > 0
                               THEN Append(l1, [group |-> groupname, status |-> "skipped", components |-> packed.notPlaced])
                               ELSE l1} |->
                      IF Len(packed.layout) = 0 THEN [layout EXCEPT !.notPlaced = l2]
                 ELSE With([entries \in {[i \in DOMAIN packed.layout |-> layoutEntry(ctx, dmapp, packed.layout[i], grouptype)]} |->
                      LET placed == SelectSeq(entries, LAMBDA e : e.deviceId # Null)
                      IN
                      With([skipped \in {Ids(SelectSeq(entries, LAMBDA e : e.deviceId = Null))} |->
                      With([devs \in {Uniq([i \in DOMAIN placed |-> placed[i].deviceId])} |->
                      LET groupLayout == [k \in DOMAIN devs |->
                                            [deviceId |-> devs[k],
                                             components |-> SelectSeq(placed, LAMBDA e : e.deviceId = devs[k])]]
                          l3 == IF Len(skipped) > 0
                                THEN Append(l2, [group |-> groupname, status |-> "skipped", components |-> skipped])
                                ELSE l2
                      IN
                      postProcess(ctx, [layout EXCEPT !.devices = @ \o groupLayout, !.notPlaced = l3])])])])])])])])])])

\* groups.forEach of computeLayout: the layout after the groups from the
\* i-th on
RECURSIVE layoutGroups(_, _, _, _, _)
layoutGroups(ctx, dmapp, groups, layout, i) ==
  IF i > Len(groups) \/ layout.err THEN layout
  ELSE layoutGroups(ctx, dmapp, groups,
                    runLayout(ctx, dmapp, layout, getGroupDevices(ctx, groups[i].id), groups[i].id,
                              groups[i].type),
                    i + 1)

\* computeLayout: the layout over each device group of the context
computeLayout(ctx, dmapp) ==
  layoutGroups(ctx, dmapp, getDeviceGroups(ctx), [devices |-> <<>>, notPlaced |-> <<>>, err |-> FALSE], 1)

\* new LayoutGenerator(): the object whose genLayout the manager and the
\* simulator call, as a function of the context and the DMApp it reads
LayoutGenerator == [a \in Any |-> computeLayout(a[1], a[2])]

\* genLayout: the devices and notPlaced of computeLayout
genLayout(layoutGenerator, ctx, dmapp) == layoutGenerator[<<ctx, dmapp>>]

\* ------------------------------------------------------------------------
\* LayoutManager: what an evaluation does with the generated layout
\* ------------------------------------------------------------------------
\* db.Layouts.findOne of a context that has no layout stored
NoLayout == [exists |-> FALSE, devices |-> <<>>, notPlaced |-> <<>>]

\* index in layout.devices of the device with the id, 0 if none
deviceIdx(layout, deviceId) == FirstIdx(layout.devices, LAMBDA d : d.deviceId = deviceId)

\* index in a component list of the component with the id, 0 if none
componentIdx(components, componentId) == FirstIdx(components, LAMBDA c : c.componentId = componentId)

\* the entry of a component in a stored layout that carries only an instance id
initedEntry(componentId) ==
  [componentId |-> componentId, startTime |-> NoTime, stopTime |-> NoTime,
   hasSize |-> FALSE, size |-> [width |-> DontCare, height |-> DontCare],
   hasPosition |-> FALSE, position |-> [x |-> 0, y |-> 0],
   priority |-> 0, deviceId |-> Undef, regionId |-> Undef]

\* manageInitedComps: the inited components (startTime null) of the previous
\* layout that are not on the device in the new layout are pushed onto it
manageInitedComps(ctx, prevLayout, newLayout, dmapp) ==
  IF ~prevLayout.exists THEN newLayout ELSE LET carried(d) == SelectSeq(prevLayout.devices[d].components, LAMBDA c : c.startTime = NoTime)
                                                RECURSIVE Go(_, _, _)
                                                Go(layout, d, k) ==
                                                  IF d > Len(prevLayout.devices) THEN layout
                                                  ELSE IF k > Len(carried(d)) THEN Go(layout, d + 1, 1)
                                                  ELSE With([comp \in {carried(d)[k]} |->
                                                       With([t \in {deviceIdx(layout, prevLayout.devices[d].deviceId)} |->
                                                       IF t # 0 /\ componentIdx(layout.devices[t].components, comp.componentId) = 0
                                                       THEN Go([layout EXCEPT !.devices[t].components = Append(@, comp)], d, k + 1)
                                                       ELSE Go(layout, d, k + 1)])])
                                            IN
                                            Go(newLayout, 1, 1)

\* a push message
Message(kind, deviceId, components) == [kind |-> kind, deviceId |-> deviceId, components |-> components]

\* a create that announces every component in the form for a new device
createsAsForNewDevices(ctx, prevLayout, newLayout) ==
  LET Of(dev) ==
        LET complist == SelectSeq(dev.components, LAMBDA c : c.startTime # NoTime)
        IN
        With([p \in {IF prevLayout.exists THEN deviceIdx(prevLayout, dev.deviceId) ELSE 0} |->
        With([named \in {IF p = 0 THEN complist
                         ELSE SelectSeq(complist,
                                LAMBDA c : componentIdx(prevLayout.devices[p].components, c.componentId) = 0)} |->
        IF p # 0 /\ Len(named) = 0 THEN <<>>
        ELSE <<Message("create", dev.deviceId,
                       [i \in DOMAIN named |->
                          [componentId |-> named[i].componentId,
                           startTime |-> NoTime, stopTime |-> NoTime]])>>])])
      RECURSIVE Go(_)
      Go(d) == IF d > Len(newLayout.devices) THEN <<>> ELSE Of(newLayout.devices[d]) \o Go(d + 1)
  IN
  Go(1)

\* notifyCreate: a create per device for the started components the
\* previous layout did not have on it
notifyCreate(ctx, prevLayout, newLayout) ==
  LET Of(dev) ==
        LET complist == SelectSeq(dev.components, LAMBDA c : c.startTime # NoTime)
        IN
        With([p \in {IF prevLayout.exists THEN deviceIdx(prevLayout, dev.deviceId) ELSE 0} |->
        IF p = 0
        THEN <<Message("create", dev.deviceId,
                       [i \in DOMAIN complist |->
                          [componentId |-> complist[i].componentId,
                           startTime |-> NoTime, stopTime |-> NoTime]])>>
        ELSE With([fresh \in {SelectSeq(complist,
                                LAMBDA c : componentIdx(prevLayout.devices[p].components, c.componentId) = 0)} |->
                  IF Len(fresh) > 0
             THEN <<Message("create", dev.deviceId,
                            [i \in DOMAIN fresh |->
                               [componentId |-> fresh[i].componentId,
                                startTime |-> fresh[i].startTime, stopTime |-> fresh[i].stopTime]])>>
             ELSE <<>>])])
      RECURSIVE Go(_)
      Go(d) == IF d > Len(newLayout.devices) THEN <<>> ELSE Of(newLayout.devices[d]) \o Go(d + 1)
  IN
  Go(1)

\* a running component carried over with a rectangle of one pixel
carriedAsPixel(latestComp, deviceId) ==
  [componentId |-> latestComp.componentId, startTime |-> latestComp.startTime,
   stopTime |-> latestComp.stopTime,
   hasSize |-> TRUE, size |-> [width |-> Px(1), height |-> Px(1)],
   hasPosition |-> TRUE, position |-> [x |-> 0, y |-> 0],
   priority |-> 0, deviceId |-> deviceId, regionId |-> Undef]

\* a running component carried over with no layout at all
carriedWithoutLayout(latestComp, deviceId) ==
  [componentId |-> latestComp.componentId, startTime |-> latestComp.startTime,
   stopTime |-> latestComp.stopTime,
   hasSize |-> FALSE, size |-> [width |-> DontCare, height |-> DontCare],
   hasPosition |-> FALSE, position |-> [x |-> 0, y |-> 0],
   priority |-> 0, deviceId |-> deviceId, regionId |-> Undef]

\* the entry of a running component carried over with an empty layout
hiddenEntry(latestComp, deviceId) ==
  [componentId |-> latestComp.componentId, startTime |-> latestComp.startTime,
   stopTime |-> latestComp.stopTime,
   hasSize |-> TRUE, size |-> [width |-> DontCare, height |-> DontCare],
   hasPosition |-> TRUE, position |-> [x |-> 0, y |-> 0],
   priority |-> 0, deviceId |-> deviceId, regionId |-> Undef]

\* manageHiddenComps: a component reported incompatible or skipped that the
\* previous layout had laid out on a device of the context, started and not
\* stopped, stays on that device with an empty layout
manageHiddenComps(ctx, prevLayout, newLayout, dmapp) ==
  IF ~prevLayout.exists THEN newLayout ELSE LET Carry(layout, compId, dev) ==
                                                  With([c \in {componentIdx(dev.components, compId)} |->
                                                  IF c = 0 \/ ~hasDevice(ctx, dev.deviceId) THEN layout
                                                  ELSE LET comp == dev.components[c]
                                                       IN
                                                       With([l \in {getComponent(dmapp, compId)} |->
                                                       LET latestComp == dmapp.components[l]
                                                       IN
                                                            IF ~(l # 0 /\ latestComp.stopTime = NoTime /\ comp.startTime # NoTime /\ comp.hasSize)
                                                         THEN layout
                                                       ELSE With([t \in {deviceIdx(layout, dev.deviceId)} |->
                                                                 IF t = 0
                                                              THEN [layout EXCEPT !.devices =
                                                                      Append(@, [deviceId |-> dev.deviceId,
                                                                                 components |-> <<hiddenEntry(latestComp, dev.deviceId)>>])]
                                                            ELSE IF componentIdx(layout.devices[t].components, compId) # 0 THEN layout
                                                            ELSE [layout EXCEPT !.devices[t].components = Append(@, hiddenEntry(latestComp, dev.deviceId))]])])])
                                                RECURSIVE Go(_, _, _, _)
                                                Go(layout, n, k, d) ==
                                                  IF n > Len(newLayout.notPlaced) THEN layout
                                                  ELSE IF k > Len(newLayout.notPlaced[n].components) THEN Go(layout, n + 1, 1, 1)
                                                  ELSE IF d > Len(prevLayout.devices) THEN Go(layout, n, k + 1, 1)
                                                  ELSE Go(Carry(layout, newLayout.notPlaced[n].components[k], prevLayout.devices[d]), n, k, d + 1)
                                            IN
                                            Go(newLayout, 1, 1, 1)

\* notifyUpdate: every device of the layout is sent its component list
notifyUpdate(ctx, layout) ==
  [d \in DOMAIN layout.devices |->
     Message("update", layout.devices[d].deviceId, layout.devices[d].components)]

\* persistLayout: the layout as stored
persistLayout(layout) == [exists |-> TRUE, devices |-> layout.devices, notPlaced |-> layout.notPlaced]

\* evaluateLayout: generate, merge with the previous layout, notify, store.
\* prev is the layout handed in, stored the one in the database
evaluateLayout(layoutGenerator, ctx, dmapp, stored, prev) ==
  With([generated \in {genLayout(layoutGenerator, ctx, dmapp)} |->
  LET prevLayout == IF prev.exists THEN prev ELSE stored
  IN
  IF generated.err
  THEN [ok |-> FALSE, generated |-> generated, prevLayout |-> prevLayout, layout |-> stored,
        pushed |-> <<>>]
  ELSE With([inited \in {manageInitedComps(ctx, prevLayout, generated, dmapp)} |->
       LET creates == notifyCreate(ctx, prevLayout, inited)
       IN
       With([hidden \in {manageHiddenComps(ctx, prevLayout, inited, dmapp)} |->
       [ok |-> TRUE, generated |-> generated, prevLayout |-> prevLayout,
        layout |-> persistLayout(hidden), pushed |-> creates \o notifyUpdate(ctx, hidden)]])])])

\* the document of one DMApp of a context whose DMApps are held together:
\* the constraints and the components that carry its id
dmappOf(dmapps, dmappid) ==
  [constraints |-> dmapps.constraints,
   components |-> SelectSeq(dmapps.components, LAMBDA c : c.DMAppId = dmappid)]

\* notifyCreate as called for one DMApp: every component of every create
\* is given the id handed in
notifyCreateFor(ctx, prevLayout, newLayout, dmappid) ==
  With([creates \in {notifyCreate(ctx, prevLayout, newLayout)} |->
  [i \in DOMAIN creates |->
     [kind |-> creates[i].kind, deviceId |-> creates[i].deviceId,
      components |-> [k \in DOMAIN creates[i].components |->
                        [componentId |-> creates[i].components[k].componentId,
                         startTime |-> creates[i].components[k].startTime,
                         stopTime |-> creates[i].components[k].stopTime,
                         DMAppId |-> dmappid]]]]])

\* evaluateLayout of a context of several DMApps: one layout is generated
\* from all of them, then for each DMApp in turn the inited components are
\* carried over, creates are pushed under its id and its hidden components
\* are carried over; one update and one store follow
evaluateLayoutOfDMApps(layoutGenerator, ctx, dmapps, stored, prev) ==
  With([generated \in {genLayout(layoutGenerator, ctx, dmapps)} |->
  LET prevLayout == IF prev.exists THEN prev ELSE stored
  IN
  IF generated.err
  THEN [ok |-> FALSE, generated |-> generated, prevLayout |-> prevLayout, layout |-> stored,
        pushed |-> <<>>]
  ELSE LET RECURSIVE forEach(_, _, _)
           forEach(newLayout, creates, n) ==
             IF n > Len(dmapps.ids) THEN [layout |-> newLayout, creates |-> creates]
             ELSE With([dmapp \in {dmappOf(dmapps, dmapps.ids[n])} |->
                  With([inited \in {manageInitedComps(ctx, prevLayout, newLayout, dmapp)} |->
                  forEach(manageHiddenComps(ctx, prevLayout, inited, dmapp),
                          creates \o notifyCreateFor(ctx, prevLayout, inited, dmapps.ids[n]),
                          n + 1)])])
       IN
       With([done \in {forEach(generated, <<>>, 1)} |->
       [ok |-> TRUE, generated |-> generated, prevLayout |-> prevLayout,
        layout |-> persistLayout(done.layout),
        pushed |-> done.creates \o notifyUpdate(ctx, done.layout)]])])

\* findComponentInLayout
findComponentInLayout(cid, layout) ==
  LET RECURSIVE Go(_)
      Go(d) == IF d > Len(layout.devices) THEN <<>>
               ELSE SelectSeq(layout.devices[d].components, LAMBDA c : c.componentId = cid) \o Go(d + 1)
  IN
  Go(1)

\* notifyStoppedComponents: every device of the context is sent one destroy
\* listing the stopped components that the dmapp still has, once per
\* occurrence in the previous layout
notifyStoppedComponents(prev, dmapp, destDevices, clist) ==
  IF Len(clist) = 0 THEN <<>>
  ELSE LET Of(c) ==
             With([i \in {getComponent(dmapp, c)} |->
             IF i = 0 THEN <<>>
             ELSE With([complayout \in {findComponentInLayout(c, prev)} |->
                       IF Len(complayout) = 0
                    THEN <<[componentId |-> c, stopTime |-> dmapp.components[i].stopTime, deviceId |-> Undef]>>
                  ELSE [k \in DOMAIN complayout |->
                          [componentId |-> c, stopTime |-> dmapp.components[i].stopTime,
                           deviceId |-> complayout[k].deviceId]]])])
           RECURSIVE Go(_)
           Go(k) == IF k > Len(clist) THEN <<>> ELSE Of(clist[k]) \o Go(k + 1)
           componentDestroyList == Go(1)
       IN
       [d \in DOMAIN destDevices |-> Message("destroy", destDevices[d], componentDestroyList)]

\* ------------------------------------------------------------------------
\* DMApp: the component life cycle
\* ------------------------------------------------------------------------
defaultConstraintId == "default"

hasConstraint(dmapp, constraintId) ==
  \E i \in DOMAIN dmapp.constraints : dmapp.constraints[i].constraintId = constraintId

\* DMApp.initComponent: a component not yet known is added, not visible
initComponent(dmapp, cc) ==
  IF getComponent(dmapp, cc.componentId) # 0 THEN dmapp
  ELSE [dmapp EXCEPT !.components =
          Append(@, [componentId |-> cc.componentId,
                     constraintId |-> IF cc.constraintId # Undef /\ hasConstraint(dmapp, cc.constraintId)
                                      THEN cc.constraintId ELSE defaultConstraintId,
                     startTime |-> NoTime, stopTime |-> NoTime, visible |-> FALSE,
                     priorityOverrides |-> [communal |-> NoOverride, personal |-> NoOverride]])]

\* a change of the component with the id, if the dmapp has it
withComponent(dmapp, id, Change(_)) ==
  With([i \in {getComponent(dmapp, id)} |->
  IF i = 0 THEN dmapp ELSE [dmapp EXCEPT !.components[i] = Change(@)]])

startComponent(dmapp, id, time) ==
  withComponent(dmapp, id, LAMBDA c : [c EXCEPT !.startTime = time, !.visible = TRUE])

stopComponent(dmapp, id, time) ==
  withComponent(dmapp, id, LAMBDA c : [c EXCEPT !.stopTime = time, !.visible = FALSE])

removeComponent(dmapp, id) ==
  With([i \in {getComponent(dmapp, id)} |->
  IF i = 0 THEN dmapp
  ELSE [dmapp EXCEPT !.components = SubSeq(@, 1, i - 1) \o SubSeq(@, i + 1, Len(@))]])

\* DMApp.updateComponent: the constraint id given replaces the component's
updateComponent(dmapp, cc) ==
  IF cc.constraintId = Undef THEN dmapp
  ELSE withComponent(dmapp, cc.componentId,
         LAMBDA c : [c EXCEPT !.constraintId = IF hasConstraint(dmapp, cc.constraintId)
                                                THEN cc.constraintId ELSE defaultConstraintId])

\* DMApp.showComponents / hideComponents
setVisible(dmapp, clist, visible) ==
  LET RECURSIVE Go(_, _)
      Go(d, k) == IF k > Len(clist) THEN d
                  ELSE Go(withComponent(d, clist[k], LAMBDA c : [c EXCEPT !.visible = visible]), k + 1)
  IN
  Go(dmapp, 1)

\* ------------------------------------------------------------------------
\* Transaction
\* ------------------------------------------------------------------------
\* the lists a request's actions are sorted into, and the flags they raise
newTransaction(time, actions) ==
  LET Of(kind) == SelectSeq(actions, LAMBDA a : a.action = kind)
      IdsOf(kind) == [i \in DOMAIN Of(kind) |-> Of(kind)[i].componentId]
  IN
  [time |-> time, initList |-> Of("init"), startList |-> IdsOf("start"),
   stopList |-> IdsOf("stop"), destroyList |-> IdsOf("destroy"), updateList |-> Of("update"),
   simulate |-> Of("init") # <<>>,
   recompute |-> Of("start") # <<>> \/ Of("stop") # <<>> \/ Of("update") # <<>>]

\* a list of changes applied in order
applyAll(dmapp, list, Change(_, _)) ==
  LET RECURSIVE Go(_, _)
      Go(d, k) == IF k > Len(list) THEN d ELSE Go(Change(d, list[k]), k + 1)
  IN
  Go(dmapp, 1)

\* Transaction.commitInit
commitInit(t, dmapp) == applyAll(dmapp, t.initList, initComponent)

\* Transaction.commit: start, stop, update, destroy
commit(t, dmapp) ==
  LET started == applyAll(dmapp, t.startList, LAMBDA d, id : startComponent(d, id, t.time))
      stopped == applyAll(started, t.stopList, LAMBDA d, id : stopComponent(d, id, t.time))
      updated == applyAll(stopped, t.updateList, updateComponent)
  IN
  applyAll(updated, t.destroyList, removeComponent)

\* DMAppController.handleNonPlaced: the entries of skipped are merged by
\* group, of a group the components of its first entry are kept (concat
\* returns a new list that is dropped); a requested component that every
\* merged group lists has its status sent to the timeline service
mergeSkipped(skipped) ==
  SelectSeq([n \in DOMAIN skipped |-> [at |-> n, group |-> skipped[n].group,
                                        components |-> skipped[n].components]],
            LAMBDA e : \A k \in 1..(e.at - 1) : skipped[k].group # e.group)

handleNonPlaced(skipped, requestedList, status) ==
  With([mergedSkipped \in {mergeSkipped(skipped)} |->
  LET foundInAllGroups(compId) ==
        \A g \in DOMAIN mergedSkipped : compId \in Range(mergedSkipped[g].components)
      failedToPlaceList == SelectSeq(requestedList, foundInAllGroups)
  IN
  [k \in DOMAIN failedToPlaceList |-> [componentId |-> failedToPlaceList[k], status |-> status]]])

\* ------------------------------------------------------------------------
\* LayoutSimulator
\* ------------------------------------------------------------------------
\* notifyNewComponents: per device of the layout, the inited components on it
notifyNewComponents(layout, initList) ==
  LET per == [d \in DOMAIN layout.devices |->
                [deviceId |-> layout.devices[d].deviceId,
                 components |-> Ids(SelectSeq(layout.devices[d].components,
                                               LAMBDA c : Contains(initList, c.componentId)))]]
  IN
  SelectSeq(per, LAMBDA e : Len(e.components) > 0)

\* a simulation that stores nothing
storeNothing(newComponentList, stored) == stored

\* persistSimulation: the inited components are appended to the stored
\* layout on the device they are projected on, without position or size
persistSimulation(newComponentList, stored) ==
  IF stored.exists THEN LET Add(layout, dev, compId) ==
                              With([with \in {IF deviceIdx(layout, dev) # 0 THEN layout
                                              ELSE [layout EXCEPT !.devices = Append(@, [deviceId |-> dev, components |-> <<>>])]} |->
                              With([t \in {deviceIdx(with, dev)} |->
                              IF componentIdx(with.devices[t].components, compId) # 0 THEN with
                              ELSE [with EXCEPT !.devices[t].components = Append(@, initedEntry(compId))]])])
                            RECURSIVE Go(_, _, _)
                            Go(layout, d, k) ==
                              IF d > Len(newComponentList) THEN layout
                              ELSE IF k > Len(newComponentList[d].components) THEN Go(layout, d + 1, 1)
                              ELSE Go(Add(layout, newComponentList[d].deviceId, newComponentList[d].components[k]), d, k + 1)
                        IN
                        Go(stored, 1, 1)
  ELSE [exists |-> TRUE,
        devices |-> [d \in DOMAIN newComponentList |->
                       [deviceId |-> newComponentList[d].deviceId,
                        components |-> [k \in DOMAIN newComponentList[d].components |->
                                          initedEntry(newComponentList[d].components[k])]]],
        notPlaced |-> <<>>]

\* runSimulation: the layout with the inited components shown, the creates
\* pushed, the layout stored and the dmapp with the components hidden again
runSimulation(generator, ctx, dmapp, stored, initlist) ==
  With([shown \in {setVisible(dmapp, initlist, TRUE)} |->
  With([newlayout \in {genLayout(generator, ctx, shown)} |->
  IF newlayout.err
  THEN [ok |-> FALSE, dmapp |-> shown, layout |-> stored, pushed |-> <<>>, notPlaced |-> <<>>]
  ELSE With([newComponentList \in {notifyNewComponents(newlayout, initlist)} |->
       [ok |-> TRUE, dmapp |-> setVisible(shown, initlist, FALSE), notPlaced |-> newlayout.notPlaced,
        layout |-> persistSimulation(newComponentList, stored),
        pushed |-> [d \in DOMAIN newComponentList |->
                      Message("create", newComponentList[d].deviceId,
                              [k \in DOMAIN newComponentList[d].components |->
                                 [componentId |-> newComponentList[d].components[k],
                                  startTime |-> NoTime, stopTime |-> NoTime]])]]])])])

\* RegionController.add: a region the device does not have is added; one it
\* has keeps its size when it is not resizable
addRegion(ctx, deviceId, newRegion) ==
  With([i \in {FirstIdx(ctx.devices, LAMBDA d : d.deviceId = deviceId)} |->
  LET regions == ctx.devices[i].regions
  IN
  IF \E k \in DOMAIN regions : regions[k].regionId = newRegion.regionId THEN ctx
  ELSE [ctx EXCEPT !.devices[i].regions = Append(regions, newRegion)]])

\* evaluateLayout after genLayout has resolved: the previous layout is
\* read, the generated one merged with it, the devices notified
mergeWithPrevious(ctx, dmapp, prevLayout, generated) ==
  With([inited \in {manageInitedComps(ctx, prevLayout, generated, dmapp)} |->
  LET creates == notifyCreate(ctx, prevLayout, inited)
  IN
  With([hidden \in {manageHiddenComps(ctx, prevLayout, inited, dmapp)} |->
  [layout |-> persistLayout(hidden), pushed |-> creates \o notifyUpdate(ctx, hidden)]])])

\* ------------------------------------------------------------------------
\* The service as a state machine
\* ------------------------------------------------------------------------
VARIABLES
  ctx,      \* the context document: its devices
  dmapp,    \* the DMApp document: its constraints and components
  layouts,  \* the layout stored for the context (db.Layouts)
  pushed,   \* the messages the last request pushed to the devices
  last,     \* the last request: its lists and what its evaluation saw
  now,      \* the time of the last request
  inflight  \* the requests whose promise chains have not run to their end

vars == <<ctx, dmapp, layouts, pushed, last, now, inflight>>

NoEvaluation == [devices |-> <<>>, notPlaced |-> <<>>, err |-> FALSE]

NoRequest ==
  [kind |-> "none", evaluated |-> FALSE, generated |-> NoEvaluation, prevLayout |-> NoLayout,
   t |-> newTransaction(0, <<>>), before |-> <<>>, statuses |-> <<>>]

\* a device document
Device(deviceId, group, communal, w, h, video, audio, regions) ==
  [deviceId |-> deviceId, group |-> group, regions |-> regions,
   caps |-> [displayWidth |-> Px(w), displayHeight |-> Px(h), concurrentVideo |-> video,
             concurrentAudio |-> audio, communalDevice |-> communal, touchInteraction |-> FALSE]]

Region(regionId, w, h) == [regionId |-> regionId, displayWidth |-> Px(w), displayHeight |-> Px(h)]

\* an authored constraint: minimum size, preferred size (0 0: none),
\* priority, video, dependencies
Constraint(minw, minh, prefw, prefh, priority, video, deps) ==
  [defaultComponentConstraint EXCEPT
     !.minSize = [width |-> Px(minw), height |-> Px(minh)],
     !.hasPrefSize = prefw # 0,
     !.prefSize = IF prefw = 0 THEN @ ELSE [width |-> Px(prefw), height |-> Px(prefh)],
     !.priority = priority, !.video = video, !.componentDependency = deps]

\* the same constraint for communal and personal devices
ConstraintDoc(constraintId, c) == [constraintId |-> constraintId, communal |-> c, personal |-> c]

\* ------------------------------------------------------------------------
\* Bounds and the documents the requests are drawn from
\* ------------------------------------------------------------------------
MaxTime == 2
MaxActions == 2
MaxComponents == 3
MaxSeries == 3

ComponentIds == <<"a", "b", "c", "d", "e", "f">>

\* a started, visible component with the constraint
Started(id, k) ==
  [componentId |-> id, constraintId |-> k, startTime |-> 1, stopTime |-> NoTime, visible |-> TRUE,
   priorityOverrides |-> [communal |-> NoOverride, personal |-> NoOverride]]

\* layout generation: one communal group of one or of two screens
PackContexts ==
  { [devices |-> <<Device("d1", "g", TRUE, 1000, 500, 1, 1, <<>>)>>],
    [devices |-> <<Device("d1", "g", TRUE, 1000, 500, 1, 1, <<>>),
                   Device("d2", "g", TRUE, 500, 500, 1, 1, <<>>)>>] }

PackTable ==
  << ConstraintDoc("wide", Constraint(600, 400, 0, 0, 2, FALSE, <<>>)),
     ConstraintDoc("clip", Constraint(400, 300, 500, 300, 1, TRUE, <<>>)),
     ConstraintDoc("thumb", Constraint(100, 100, 0, 0, 2, TRUE, <<>>)),
     ConstraintDoc("film", Constraint(500, 300, 0, 0, 1, TRUE, <<>>)),
     ConstraintDoc("player",
       [Constraint(160, 90, 0, 0, 2, TRUE, <<>>) EXCEPT !.aspectStr = <<16, 9>>]),
     ConstraintDoc("square", Constraint(300, 300, 300, 300, 1, FALSE, <<>>)),
     ConstraintDoc("corner",
       [Constraint(100, 100, 0, 0, 1, FALSE, <<>>) EXCEPT !.hasAnchor = TRUE, !.anchor = {"bottom", "left"}]),
     ConstraintDoc("caption", Constraint(200, 200, 0, 0, 1, FALSE, <<"a">>)),
     ConstraintDoc("off", Constraint(100, 100, 0, 0, 0, FALSE, <<>>)),
     ConstraintDoc("framed",
       [Constraint(160, 90, 0, 0, 1, FALSE, <<>>) EXCEPT !.aspectStr = <<16, 9>>, !.margin = Px(10)]) >>

ConstraintIds(table) == {table[i].constraintId : i \in DOMAIN table}

\* the service: two screens of one communal group
LifeContexts ==
  { [devices |-> <<Device("d1", "g", TRUE, 1000, 500, 1, 1, <<>>)>>],
    [devices |-> <<Device("d1", "g", TRUE, 1000, 500, 1, 1, <<>>),
                   Device("d2", "g", TRUE, 500, 500, 1, 1, <<>>)>>] }

LifeTable ==
  << ConstraintDoc("small", Constraint(100, 100, 0, 0, 1, FALSE, <<>>)),
     ConstraintDoc("wide", Constraint(600, 400, 0, 0, 2, FALSE, <<>>)),
     ConstraintDoc("huge", Constraint(2000, 2000, 0, 0, 1, FALSE, <<>>)) >>

LifeIds == {"a", "b"}
Priorities == {0, 3}

\* the actions of a transaction request, one component each
Actions ==
  [action : {"init"}, componentId : LifeIds, constraintId : {"small", "wide"}]
    \cup [action : {"update"}, componentId : LifeIds, constraintId : {"huge"}]
    \cup [action : {"start", "stop", "destroy"}, componentId : LifeIds, constraintId : {Undef}]

Requests == UNION {[1..n -> Actions] : n \in 1..MaxActions}

\* ------------------------------------------------------------------------
\* Init
\* ------------------------------------------------------------------------
\* the service with a context, a DMApp with its constraints, no component
Init ==
  /\ ctx \in LifeContexts
  /\ dmapp = [constraints |-> LifeTable, components |-> <<>>]
  /\ layouts = NoLayout
  /\ pushed = <<>>
  /\ last = NoRequest
  /\ now = 0
  /\ inflight = <<>>

\* a context with running components and no layout stored
InitPack ==
  /\ ctx \in PackContexts
  /\ \E n \in 1..MaxComponents : \E f \in [1..n -> ConstraintIds(PackTable)] :
       dmapp = [constraints |-> PackTable,
                components |-> [i \in 1..n |-> Started(ComponentIds[i], f[i])]]
  /\ layouts = NoLayout
  /\ pushed = <<>>
  /\ last = NoRequest
  /\ now = 0
  /\ inflight = <<>>

\* ------------------------------------------------------------------------
\* Actions
\* ------------------------------------------------------------------------
\* LayoutManager.getLayout without a stored layout: the layout is generated
\* and returned, nothing is stored or pushed
GenLayout ==
  /\ ~layouts.exists
  /\ last.kind = "none"
  /\ last' = [NoRequest EXCEPT !.kind = "generate", !.generated = genLayout(LayoutGenerator, ctx, dmapp),
                               !.before = dmapp.components]
  /\ UNCHANGED <<ctx, dmapp, layouts, pushed, now, inflight>>

\* DMAppController.transaction: the inits are committed and simulated, the
\* rest is committed, and with a start, stop or update the layout is
\* evaluated and the stopped components are notified
Transaction(layoutGenerator, actions) ==
  LET t == newTransaction(now + 1, actions)
      request == [kind |-> "transaction", evaluated |-> FALSE, generated |-> NoEvaluation,
                  prevLayout |-> NoLayout, t |-> t, before |-> dmapp.components, statuses |-> <<>>]
      Simulated ==
        IF t.simulate
        THEN runSimulation(layoutGenerator, ctx, commitInit(t, dmapp), layouts,
                           [i \in DOMAIN t.initList |-> t.initList[i].componentId])
        ELSE [ok |-> TRUE, dmapp |-> commitInit(t, dmapp), layout |-> layouts, pushed |-> <<>>,
              notPlaced |-> <<>>]
  IN  \E sim \in {Simulated} :
           LET committed == commit(t, sim.dmapp)
               prev == sim.layout
               destroys == IF ~prev.exists THEN <<>>
                           ELSE notifyStoppedComponents(prev, committed, getDeviceList(ctx), t.stopList)
               inited == IF ~t.simulate THEN <<>>
                         ELSE handleNonPlaced(sim.notPlaced,
                                              [i \in DOMAIN t.initList |-> t.initList[i].componentId],
                                              "inited")
           IN  IF ~sim.ok
                 THEN /\ dmapp' = sim.dmapp
                      /\ layouts' = layouts
                      /\ pushed' = <<>>
                      /\ last' = request
                      /\ now' = now + 1
                      /\ UNCHANGED <<ctx, inflight>>
               ELSE IF ~t.recompute
                 THEN /\ dmapp' = committed
                      /\ layouts' = sim.layout
                      /\ pushed' = sim.pushed
                      /\ last' = [request EXCEPT !.statuses = inited]
                      /\ now' = now + 1
                      /\ UNCHANGED <<ctx, inflight>>
               ELSE \E ev \in {evaluateLayout(layoutGenerator, ctx, committed, sim.layout, prev)} :
                      /\ dmapp' = committed
                      /\ layouts' = ev.layout
                      /\ pushed' = sim.pushed \o ev.pushed \o (IF ev.ok THEN destroys ELSE <<>>)
                      /\ last' = [request EXCEPT
                                    !.evaluated = ev.ok, !.generated = ev.generated,
                                    !.prevLayout = ev.prevLayout,
                                    !.statuses =
                                      IF ~ev.ok THEN inited
                                      ELSE inited \o handleNonPlaced(ev.layout.notPlaced, t.startList,
                                                                     "started")]
                      /\ now' = now + 1
                      /\ UNCHANGED <<ctx, inflight>>

\* the priority request of a component: the override for communal devices
\* is stored with the scope of the context and the layout is evaluated
SetPriority(layoutGenerator, componentId, priority) ==
  LET changed == withComponent(dmapp, componentId,
                   LAMBDA c : [c EXCEPT !.priorityOverrides.communal =
                                     [has |-> TRUE, scope |-> "context",
                                      priorities |-> [@.priorities EXCEPT !["context"] = priority]]])
  IN  /\ getComponent(dmapp, componentId) # 0
      /\ now' = now + 1
      /\ ctx' = ctx
      /\ inflight' = inflight
      /\ dmapp' = changed
      /\ \E ev \in {evaluateLayout(layoutGenerator, ctx, changed, layouts, NoLayout)} :
           /\ layouts' = ev.layout
           /\ pushed' = ev.pushed
           /\ last' = [kind |-> "priority", evaluated |-> ev.ok, generated |-> ev.generated,
                       prevLayout |-> ev.prevLayout, t |-> newTransaction(now + 1, <<>>),
                       before |-> dmapp.components, statuses |-> <<>>]

\* the priority request with a list of overrides, one override here: an
\* override of -1 deletes the key, any other is stored under the id (under
\* "context" for the scope of the context) and sets the scope; the layout
\* is evaluated
SetOverride(layoutGenerator, componentId, devType, scope, id, priority) ==
  LET key == IF scope = "context" THEN "context" ELSE id
      changed == withComponent(dmapp, componentId,
                   LAMBDA c : [c EXCEPT !.priorityOverrides[devType] =
                                 IF priority = -1
                                 THEN [@ EXCEPT !.priorities[key] = -1]
                                 ELSE [has |-> TRUE, scope |-> scope,
                                       priorities |-> [@.priorities EXCEPT ![key] = priority]]])
  IN  /\ getComponent(dmapp, componentId) # 0
      /\ priority = -1 => dmapp.components[getComponent(dmapp, componentId)].priorityOverrides[devType].has
      /\ now' = now + 1
      /\ ctx' = ctx
      /\ inflight' = inflight
      /\ dmapp' = changed
      /\ \E ev \in {evaluateLayout(layoutGenerator, ctx, changed, layouts, NoLayout)} :
           /\ layouts' = ev.layout
           /\ pushed' = ev.pushed
           /\ last' = [kind |-> "priority", evaluated |-> ev.ok, generated |-> ev.generated,
                       prevLayout |-> ev.prevLayout, t |-> newTransaction(now + 1, <<>>),
                       before |-> dmapp.components, statuses |-> <<>>]

\* the controller serves every request with the one layout generator;
\* MaxTime requests are followed
Next ==
  \E layoutGenerator \in {LayoutGenerator} :
    \/ \E actions \in Requests : now < MaxTime /\ Transaction(layoutGenerator, actions)
    \/ \E componentId \in LifeIds, priority \in Priorities :
         now < MaxTime /\ SetPriority(layoutGenerator, componentId, priority)

Spec == Init /\ [][Next]_vars

\* longer runs of fewer requests: the two screens, a small and a wide
\* component that are inited, started and stopped
InitSeries ==
  /\ ctx = [devices |-> <<Device("d1", "g", TRUE, 1000, 500, 1, 1, <<>>),
                          Device("d2", "g", TRUE, 500, 500, 1, 1, <<>>)>>]
  /\ dmapp = [constraints |-> LifeTable, components |-> <<>>]
  /\ layouts = NoLayout
  /\ pushed = <<>>
  /\ last = NoRequest
  /\ now = 0
  /\ inflight = <<>>

SeriesActions ==
  { [action |-> "init", componentId |-> "a", constraintId |-> "small"],
    [action |-> "init", componentId |-> "b", constraintId |-> "wide"] }
    \cup [action : {"start", "stop"}, componentId : LifeIds, constraintId : {Undef}]

SeriesRequests == UNION {[1..n -> SeriesActions] : n \in 1..MaxActions}

NextSeries ==
  \E layoutGenerator \in {LayoutGenerator} :
    \E actions \in SeriesRequests : now < MaxSeries /\ Transaction(layoutGenerator, actions)

SpecSeries == InitSeries /\ [][NextSeries]_vars

SpecPack == InitPack /\ [][GenLayout]_vars

\* evaluateLayout applied to the context and the DMApp as they are, with
\* the stored layout as the previous one
Evaluate(layoutGenerator) ==
  /\ now < MaxTime
  /\ now' = now + 1
  /\ \E ev \in {evaluateLayout(layoutGenerator, ctx, dmapp, layouts, layouts)} :
       /\ layouts' = ev.layout
       /\ pushed' = ev.pushed
       /\ last' = [NoRequest EXCEPT !.kind = "evaluate", !.evaluated = ev.ok,
                                    !.generated = ev.generated, !.prevLayout = ev.prevLayout]
  /\ UNCHANGED <<ctx, dmapp, inflight>>

AgainConstraints == {"wide", "clip", "thumb", "off", "huge"}

AgainTable == PackTable \o <<ConstraintDoc("huge", Constraint(2000, 2000, 0, 0, 1, FALSE, <<>>))>>

InitAgain ==
  /\ ctx \in PackContexts
  /\ \E n \in 1..(MaxComponents - 1) : \E f \in [1..n -> AgainConstraints] :
       dmapp = [constraints |-> AgainTable,
                components |-> [i \in 1..n |-> Started(ComponentIds[i], f[i])]]
  /\ layouts = NoLayout /\ pushed = <<>> /\ last = NoRequest /\ now = 0 /\ inflight = <<>>

NextAgain == \E layoutGenerator \in {LayoutGenerator} : Evaluate(layoutGenerator)

SpecAgain == InitAgain /\ [][NextAgain]_vars

\* evaluateLayout applied to a context of several DMApps, with the stored
\* layout as the previous one
EvaluateDMApps(layoutGenerator) ==
  /\ now < MaxTime
  /\ now' = now + 1
  /\ \E ev \in {evaluateLayoutOfDMApps(layoutGenerator, ctx, dmapp, layouts, layouts)} :
       /\ layouts' = ev.layout
       /\ pushed' = ev.pushed
       /\ last' = [NoRequest EXCEPT !.kind = "evaluate", !.evaluated = ev.ok,
                                    !.generated = ev.generated, !.prevLayout = ev.prevLayout]
  /\ UNCHANGED <<ctx, dmapp, inflight>>

DMAppIds == <<"app1", "app2">>

SharedConstraints == {"wide", "thumb", "off"}

\* a started, visible component of the DMApp
StartedOf(dmappid, id, k) ==
  [componentId |-> id, constraintId |-> k, startTime |-> 1, stopTime |-> NoTime, visible |-> TRUE,
   priorityOverrides |-> [communal |-> NoOverride, personal |-> NoOverride], DMAppId |-> dmappid]

\* a context of two DMApps with the same constraints: the first own
\* components belong to the first DMApp, the others to the second
InitShared ==
  /\ ctx \in PackContexts
  /\ \E n \in 1..MaxComponents : \E own \in 0..n : \E f \in [1..n -> SharedConstraints] :
       dmapp = [constraints |-> PackTable, ids |-> DMAppIds,
                components |-> [i \in 1..n |->
                                  StartedOf(DMAppIds[IF i <= own THEN 1 ELSE 2], ComponentIds[i], f[i])]]
  /\ layouts = NoLayout /\ pushed = <<>> /\ last = NoRequest /\ now = 0 /\ inflight = <<>>

NextShared == \E layoutGenerator \in {LayoutGenerator} : EvaluateDMApps(layoutGenerator)

SpecShared == InitShared /\ [][NextShared]_vars

\* overrides of the priority of the one component of a context of two
\* screens, by device, by group and for the context
OverrideScopes == {<<"device", "d1">>, <<"device", "d2">>, <<"group", "g">>, <<"context", "context">>}

InitPriority ==
  /\ ctx = [devices |-> <<Device("d1", "g", TRUE, 1000, 500, 1, 1, <<>>),
                          Device("d2", "g", TRUE, 500, 500, 1, 1, <<>>)>>]
  /\ dmapp = [constraints |-> LifeTable, components |-> <<Started("a", "small")>>]
  /\ layouts = NoLayout /\ pushed = <<>> /\ last = NoRequest /\ now = 0 /\ inflight = <<>>

NextPriority ==
  \E layoutGenerator \in {LayoutGenerator} :
    \E s \in OverrideScopes, priority \in Priorities \cup {-1} :
      now < MaxTime + 1 /\ SetOverride(layoutGenerator, "a", "communal", s[1], s[2], priority)

SpecPriority == InitPriority /\ [][NextPriority]_vars

\* a crowded screen: one component more, of fewer constraints
CrowdConstraints == {"wide", "thumb", "framed"}

InitCrowd ==
  /\ ctx \in PackContexts
  /\ \E f \in [1..(MaxComponents + 1) -> CrowdConstraints] :
       dmapp = [constraints |-> PackTable,
                components |-> [i \in 1..(MaxComponents + 1) |-> Started(ComponentIds[i], f[i])]]
  /\ layouts = NoLayout
  /\ pushed = <<>>
  /\ last = NoRequest
  /\ now = 0
  /\ inflight = <<>>

SpecCrowd == InitCrowd /\ [][GenLayout]_vars

\* components that are inited one by one and then started, on the screens
\* of the layout generation
StartConstraints == {"wide", "off"}

StartTable == SelectSeq(PackTable, LAMBDA k : k.constraintId \in StartConstraints)


InitStart ==
  /\ ctx \in PackContexts
  /\ dmapp = [constraints |-> StartTable, components |-> <<>>]
  /\ layouts = NoLayout /\ pushed = <<>> /\ last = NoRequest /\ now = 0 /\ inflight = <<>>

\* a request inits the next component or starts components it has
StartRequests(components) ==
  {<<[action |-> "init", componentId |-> ComponentIds[Len(components) + 1], constraintId |-> k]>> :
     k \in IF Len(components) < MaxComponents THEN StartConstraints ELSE {}}
    \cup UNION {[1..n -> [action : {"start"}, componentId : Range(Ids(components)), constraintId : {Undef}]] :
                 n \in 1..MaxActions}

NextStart ==
  \E layoutGenerator \in {LayoutGenerator} :
    \E actions \in StartRequests(dmapp.components) :
      now < MaxSeries + 1 /\ Transaction(layoutGenerator, actions)

SpecStart == InitStart /\ [][NextStart]_vars

\* ------------------------------------------------------------------------
\* The promise chains of concurrent requests
\* ------------------------------------------------------------------------
\* the requests followed
MaxInFlight == 2

\* a request in flight: where its chain is, and the documents it holds
InFlight(kind, pc, c, d, initlist) ==
  [kind |-> kind, pc |-> pc, ctx |-> c, dmapp |-> d, initlist |-> initlist,
   generated |-> NoEvaluation, layout |-> NoLayout]

\* a context with one screen, a running component, and its layout stored
AsyncContext == [devices |-> <<Device("d1", "g", TRUE, 1000, 500, 1, 1, <<>>)>>]
AsyncDMApp == [constraints |-> LifeTable, components |-> <<Started("a", "small")>>]

InitAsync ==
  /\ ctx = AsyncContext
  /\ dmapp = AsyncDMApp
  /\ layouts = evaluateLayout(LayoutGenerator, AsyncContext, AsyncDMApp, NoLayout, NoLayout).layout
  /\ pushed = <<>>
  /\ last = NoRequest
  /\ now = 0
  /\ inflight = <<>>

AsyncRegions == {Region("r1", 400, 300), Region("r2", 600, 500)}
AsyncInits == {<<[action |-> "init", componentId |-> "b", constraintId |-> "wide"]>>}

\* RegionController.add up to ctx.save(): the context is read and the region
\* added to the copy the request holds
RegionAdd(deviceId, newRegion) ==
  /\ hasDevice(ctx, deviceId)
  /\ now' = now + 1
  /\ inflight' = Append(inflight, InFlight("region", "save", addRegion(ctx, deviceId, newRegion), dmapp, <<>>))
  /\ UNCHANGED <<ctx, dmapp, layouts, pushed, last>>

\* ctx.save() resolves: the copy of the request is the stored context
SaveContext(i) ==
  /\ inflight[i].kind = "region" /\ inflight[i].pc = "save"
  /\ ctx' = inflight[i].ctx
  /\ inflight' = [inflight EXCEPT ![i].pc = "generate"]
  /\ UNCHANGED <<dmapp, layouts, pushed, last, now>>

\* genLayout resolves: the DMApps are read and laid out on the context of
\* the request
GenerateLayout(layoutGenerator, i) ==
  /\ inflight[i].kind = "region" /\ inflight[i].pc = "generate"
  /\ \E g \in {genLayout(layoutGenerator, inflight[i].ctx, dmapp)} :
       inflight' = [inflight EXCEPT ![i].generated = g, ![i].pc = IF g.err THEN "done" ELSE "merge"]
  /\ UNCHANGED <<ctx, dmapp, layouts, pushed, last, now>>

\* db.Layouts.findOne and db.DMApps.find resolve: the layout is merged with
\* the stored one and the devices are notified
MergeLayout(i) ==
  /\ inflight[i].kind = "region" /\ inflight[i].pc = "merge"
  /\ \E r \in {mergeWithPrevious(inflight[i].ctx, dmapp, layouts, inflight[i].generated)} :
       /\ pushed' = r.pushed
       /\ inflight' = [inflight EXCEPT ![i].layout = r.layout, ![i].pc = "persist"]
  /\ UNCHANGED <<ctx, dmapp, layouts, last, now>>

\* persistLayout: db.Layouts.update resolves
PersistLayout(i) ==
  /\ inflight[i].kind = "region" /\ inflight[i].pc = "persist"
  /\ layouts' = inflight[i].layout
  /\ inflight' = [inflight EXCEPT ![i].pc = "done"]
  /\ UNCHANGED <<ctx, dmapp, pushed, last, now>>

\* DMAppController.transaction of inits up to showComponents: the inits are
\* committed and the components saved as visible; the runs followed have
\* one transaction in flight at a time
TransactionInit(actions) ==
  LET t == newTransaction(now + 1, actions)
      initlist == [i \in DOMAIN t.initList |-> t.initList[i].componentId]
      shown == setVisible(commitInit(t, dmapp), initlist, TRUE)
  IN  /\ \A i \in DOMAIN inflight : inflight[i].kind = "init" => inflight[i].pc = "done"
      /\ now' = now + 1
      /\ dmapp' = shown
      /\ inflight' = Append(inflight, InFlight("init", "simulate", ctx, shown, initlist))
      /\ UNCHANGED <<ctx, layouts, pushed, last>>

\* runSimulation, genLayout resolves: the components are hidden again and
\* the devices they are projected on are sent the creates
Simulate(layoutGenerator, i) ==
  /\ inflight[i].kind = "init" /\ inflight[i].pc = "simulate"
  /\ \E newlayout \in {genLayout(layoutGenerator, inflight[i].ctx, dmapp)} :
       LET newComponentList == notifyNewComponents(newlayout, inflight[i].initlist)
       IN  IF newlayout.err
           THEN /\ inflight' = [inflight EXCEPT ![i].pc = "done"]
                /\ UNCHANGED <<dmapp, pushed>>
           ELSE /\ dmapp' = setVisible(inflight[i].dmapp, inflight[i].initlist, FALSE)
                /\ pushed' = [d \in DOMAIN newComponentList |->
                                Message("create", newComponentList[d].deviceId,
                                        [k \in DOMAIN newComponentList[d].components |->
                                           [componentId |-> newComponentList[d].components[k],
                                            startTime |-> NoTime, stopTime |-> NoTime]])]
                /\ inflight' = [inflight EXCEPT ![i].generated = newlayout, ![i].pc = "persistSimulation"]
  /\ UNCHANGED <<ctx, layouts, last, now>>

\* persistSimulation: the stored layout is read and saved with the inited
\* components
PersistSimulation(i) ==
  /\ inflight[i].kind = "init" /\ inflight[i].pc = "persistSimulation"
  /\ layouts' = persistSimulation(notifyNewComponents(inflight[i].generated, inflight[i].initlist), layouts)
  /\ inflight' = [inflight EXCEPT ![i].pc = "done"]
  /\ UNCHANGED <<ctx, dmapp, pushed, last, now>>

\* the requests arrive while the chains of the earlier ones run
NextAsync ==
  \E layoutGenerator \in {LayoutGenerator} :
    \/ \E deviceId \in {"d1"}, newRegion \in AsyncRegions : now < MaxInFlight /\ RegionAdd(deviceId, newRegion)
    \/ \E actions \in AsyncInits : now < MaxInFlight /\ TransactionInit(actions)
    \/ \E i \in DOMAIN inflight : SaveContext(i)
    \/ \E i \in DOMAIN inflight : GenerateLayout(layoutGenerator, i)
    \/ \E i \in DOMAIN inflight : MergeLayout(i)
    \/ \E i \in DOMAIN inflight : PersistLayout(i)
    \/ \E i \in DOMAIN inflight : Simulate(layoutGenerator, i)
    \/ \E i \in DOMAIN inflight : PersistSimulation(i)

SpecAsync == InitAsync /\ [][NextAsync]_vars

\* ------------------------------------------------------------------------
\* What the properties are stated over
\* ------------------------------------------------------------------------
\* the layout the last request generated, and the one it found stored
Generated == last.generated
Previous == last.prevLayout

\* the entries of a layout, each with the device that lists it
EntriesOf(layout) ==
  UNION {{[deviceId |-> layout.devices[d].deviceId, entry |-> layout.devices[d].components[k]] :
            k \in DOMAIN layout.devices[d].components} : d \in DOMAIN layout.devices}

PlacedIds(layout) == {x.entry.componentId : x \in EntriesOf(layout)}

\* the components a layout reports as not placed with one of the statuses
NotPlacedAs(layout, statuses) ==
  UNION {Range(layout.notPlaced[n].components) :
           n \in {m \in DOMAIN layout.notPlaced : layout.notPlaced[m].status \in statuses}}

Known(id) == getComponent(dmapp, id) # 0

ComponentOf(id) == dmapp.components[getComponent(dmapp, id)]

\* the constraint of a component on a device
ConstraintOn(id, deviceId) ==
  getComponentConstraints(dmapp, ComponentOf(id).constraintId,
                          getDevice(ctx, deviceId).caps.communalDevice)

\* the priority a component has on the communal devices of the context
EffectivePriority(id) == getPriority(dmapp, ComponentOf(id), ctx.devices[1], "communal")

Running(id) ==
  Known(id) /\ ComponentOf(id).startTime # NoTime /\ ComponentOf(id).stopTime = NoTime

\* an entry with the empty layout: size {-1, -1} at position {0, 0}
IsHidden(e) ==
  /\ e.hasSize /\ e.size.width = DontCare /\ e.size.height = DontCare
  /\ e.hasPosition /\ e.position.x = 0 /\ e.position.y = 0

Overlap(e, f) ==
  /\ e.position.x < f.position.x + f.size.width /\ f.position.x < e.position.x + e.size.width
  /\ e.position.y < f.position.y + f.size.height /\ f.position.y < e.position.y + e.size.height

\* a message of the kind pushed to the device names the component
Names(m, kind, deviceId, id) ==
  /\ m.kind = kind /\ m.deviceId = deviceId
  /\ \E k \in DOMAIN m.components : m.components[k].componentId = id

\* the component was started and not stopped when the last request came
WasRunning(id) ==
  \E i \in DOMAIN last.before :
    /\ last.before[i].componentId = id
    /\ last.before[i].startTime # NoTime /\ last.before[i].stopTime = NoTime

\* ------------------------------------------------------------------------
\* Properties
\* ------------------------------------------------------------------------
\* C1: on every device of a generated layout the placed components whose
\* constraint asks for video are at most concurrentVideo of the device, and
\* those that ask for audio at most concurrentAudio
C1_WithinCapacity ==
  \A d \in DOMAIN Generated.devices :
    With([deviceId \in {Generated.devices[d].deviceId} |->
    With([on \in {{x.entry.componentId : x \in {y \in EntriesOf(Generated) : y.deviceId = deviceId}}} |->
    /\ Cardinality({id \in on : ConstraintOn(id, deviceId).video})
         <= getDevice(ctx, deviceId).caps.concurrentVideo
    /\ Cardinality({id \in on : ConstraintOn(id, deviceId).audio})
         <= getDevice(ctx, deviceId).caps.concurrentAudio])])

\* C2: no two components placed in the same region of a device in a
\* generated layout have overlapping rectangles, the rectangle being the
\* position and size left after the margin
C2_NoOverlap ==
  \A x, y \in EntriesOf(Generated) :
    /\ x.deviceId = y.deviceId
    /\ x.entry.regionId = y.entry.regionId
    /\ x.entry.componentId # y.entry.componentId
    => ~Overlap(x.entry, y.entry)

\* C3: the components a generated layout lists on devices together with
\* those it lists as not placed are exactly the components of the DMApp
C3_AllReported ==
  last.kind = "generate" =>
    PlacedIds(Generated) \cup NotPlacedAs(Generated, {"incompatible", "skipped"})
      = {dmapp.components[i].componentId : i \in DOMAIN dmapp.components}

\* C4: every component placed in a generated layout whose constraint lists
\* component dependencies has each of them placed in the same layout
C4_DependenciesPlaced ==
  \A x \in EntriesOf(Generated) :
    Range(ConstraintOn(x.entry.componentId, x.deviceId).componentDependency)
      \subseteq PlacedIds(Generated)

\* a component with a dependency is placed
C4_Witness ==
  \E x \in EntriesOf(Generated) :
    ConstraintOn(x.entry.componentId, x.deviceId).componentDependency # <<>>

\* C5 as claimed: a component whose priority is 0 is on no device of the
\* layout an evaluation stores
C5_OnNoDevice ==
  \A x \in EntriesOf(layouts) :
    Known(x.entry.componentId) => EffectivePriority(x.entry.componentId) # 0

\* C5 amended: a component whose priority is 0 is never placed by the
\* generator, and on a device of the stored layout it has no layout or the
\* empty layout of a component carried over
C5_NeverPacked ==
  /\ \A x \in EntriesOf(Generated) :
       Known(x.entry.componentId) => EffectivePriority(x.entry.componentId) # 0
  /\ \A x \in EntriesOf(layouts) :
       Known(x.entry.componentId) /\ EffectivePriority(x.entry.componentId) = 0
         => ~x.entry.hasSize \/ IsHidden(x.entry)

\* a running component of priority 0 is kept on its device with the empty layout
C5_Witness ==
  \E x \in EntriesOf(layouts) :
    /\ Running(x.entry.componentId)
    /\ EffectivePriority(x.entry.componentId) = 0
    /\ IsHidden(x.entry)

\* C6: a component whose priority is 0 is reported by the generated layout
\* as not placed with the status skipped
C6_ReportedSkipped ==
  last.kind = "generate" =>
    \A i \in DOMAIN dmapp.components :
      EffectivePriority(dmapp.components[i].componentId) = 0
        => dmapp.components[i].componentId \in NotPlacedAs(Generated, {"skipped"})

C8_InitedCarriedOver ==
  last.evaluated =>
    \A x \in EntriesOf(Previous) :
      x.entry.startTime = NoTime /\ x.entry.componentId \notin PlacedIds(Generated)
      => \E y \in EntriesOf(layouts) :
           /\ y.deviceId = x.deviceId /\ y.entry.componentId = x.entry.componentId
           /\ ~y.entry.hasSize /\ ~y.entry.hasPosition

\* C9: for every running component the previous layout had on a device and
\* the stored layout no longer has on it, the evaluation pushed that device
\* a destroy naming the component
C9_DestroyOnLeave ==
  last.evaluated =>
    \A x \in EntriesOf(Previous) :
      /\ x.entry.startTime # NoTime
      /\ Running(x.entry.componentId)
      /\ ~\E y \in EntriesOf(layouts) :
            y.deviceId = x.deviceId /\ y.entry.componentId = x.entry.componentId
      => \E i \in DOMAIN pushed : Names(pushed[i], "destroy", x.deviceId, x.entry.componentId)

\* C10: a transaction that stops a running component pushes every device of
\* the context a destroy that names the component with the time of the
\* transaction as its stop time
C10_StopDestroys ==
  last.kind = "transaction" =>
    \A id \in Range(last.t.stopList) :
      WasRunning(id) =>
        \A d \in DOMAIN ctx.devices :
          \E i \in DOMAIN pushed :
            /\ pushed[i].kind = "destroy" /\ pushed[i].deviceId = ctx.devices[d].deviceId
            /\ \E k \in DOMAIN pushed[i].components :
                 /\ pushed[i].components[k].componentId = id
                 /\ pushed[i].components[k].stopTime = last.t.time

\* the evaluation of the last request found the device, and the component on
\* the device, in the layout it took as the previous one
HadDevice(deviceId) == Previous.exists /\ deviceIdx(Previous, deviceId) # 0

WasOn(deviceId, id) ==
  /\ Previous.exists
  /\ \E x \in EntriesOf(Previous) : x.deviceId = deviceId /\ x.entry.componentId = id

\* a create pushed to the device that lists the component with the times
Created(deviceId, id, startTime, stopTime) ==
  \E i \in DOMAIN pushed :
    /\ pushed[i].kind = "create" /\ pushed[i].deviceId = deviceId
    /\ \E k \in DOMAIN pushed[i].components :
         /\ pushed[i].components[k].componentId = id
         /\ pushed[i].components[k].startTime = startTime
         /\ pushed[i].components[k].stopTime = stopTime

C11_FreshDevice ==
  /\ last.evaluated
  /\ \E x \in EntriesOf(layouts) :
       /\ ~HadDevice(x.deviceId)
       /\ Created(x.deviceId, x.entry.componentId, NoTime, NoTime)

\* the bounding box of the region that hosts an entry: the region of the
\* device with the entry's regionId, the display of the device without one
HostBox(deviceId, regionId) ==
  With([device \in {getDevice(ctx, deviceId)} |->
  With([r \in {FirstIdx(device.regions, LAMBDA region : region.regionId = regionId)} |->
  IF r = 0
  THEN [width |-> device.caps.displayWidth, height |-> device.caps.displayHeight]
  ELSE [width |-> device.regions[r].displayWidth, height |-> device.regions[r].displayHeight]])])

\* C21: every component rectangle of a generated layout is at least one
\* pixel wide and one pixel high and lies inside the bounding box of the
\* region that hosts it
C21_InsideRegion ==
  \A x \in EntriesOf(Generated) :
    /\ x.entry.size.width >= Px(1) /\ x.entry.size.height >= Px(1)
    /\ x.entry.position.x >= 0 /\ x.entry.position.y >= 0
    /\ x.entry.position.x + x.entry.size.width <= HostBox(x.deviceId, x.entry.regionId).width
    /\ x.entry.position.y + x.entry.size.height <= HostBox(x.deviceId, x.entry.regionId).height

\* a notPlaced entry of the layout for the group of the device lists the
\* component
NotPlacedOn(layout, deviceId, id) ==
  \E n \in DOMAIN layout.notPlaced :
    /\ layout.notPlaced[n].group = getDevice(ctx, deviceId).group
    /\ Contains(layout.notPlaced[n].components, id)

\* C22: no component of the stored layout is both on a device and in a
\* notPlaced entry for the group of that device
C22_PlacedOrNotPlaced ==
  \A x \in EntriesOf(layouts) : ~NotPlacedOn(layouts, x.deviceId, x.entry.componentId)

\* C22 restated: the generator lists no component both on a device and as
\* not placed in the group of that device, and a component the stored layout
\* lists both ways is on the device without a layout (inited) or with the
\* empty layout (hidden), never with a rectangle
C22_PlacedTwiceIsHidden ==
  /\ \A x \in EntriesOf(Generated) : ~NotPlacedOn(Generated, x.deviceId, x.entry.componentId)
  /\ \A x \in EntriesOf(layouts) :
       NotPlacedOn(layouts, x.deviceId, x.entry.componentId) =>
         IsHidden(x.entry) \/ (~x.entry.hasSize /\ x.entry.startTime = NoTime)

\* a component not placed by the generator is kept on its device
C22_Witness ==
  /\ last.evaluated
  /\ Generated.devices # <<>>
  /\ \E x \in EntriesOf(layouts) :
       NotPlacedOn(layouts, x.deviceId, x.entry.componentId) /\ IsHidden(x.entry)

\* the devices of a communal group of the context on which the layout
\* lists the component
CommunalDevicesOf(layout, group, id) ==
  {x.deviceId : x \in {y \in EntriesOf(layout) :
                         /\ y.entry.componentId = id
                         /\ hasDevice(ctx, y.deviceId)
                         /\ getDevice(ctx, y.deviceId).group = group
                         /\ getDevice(ctx, y.deviceId).caps.communalDevice}}

\* no component of the layout is on two devices of one communal group
OncePerCommunalGroup(layout) ==
  \A x \in EntriesOf(layout) :
    hasDevice(ctx, x.deviceId) =>
      Cardinality(CommunalDevicesOf(layout, getDevice(ctx, x.deviceId).group, x.entry.componentId)) <= 1

\* C23: in the layout an evaluation stores, carried-over components
\* included, a component is on at most one device of a communal group
C23_OncePerGroup ==
  last.evaluated => OncePerCommunalGroup(layouts)

\* the context has one device, the DMApp one component, visible, and its
\* constraint asks for more than the display of the device
OnlyComponentTooLarge ==
  /\ Len(ctx.devices) = 1 /\ ctx.devices[1].regions = <<>>
  /\ Len(dmapp.components) = 1 /\ dmapp.components[1].visible
  /\ With([minSize \in {ConstraintOn(dmapp.components[1].componentId, ctx.devices[1].deviceId).minSize} |->
     \/ minSize.width > ctx.devices[1].caps.displayWidth
     \/ minSize.height > ctx.devices[1].caps.displayHeight])

AspectOf(x) == getAspect(ConstraintOn(x.entry.componentId, x.deviceId))

\* C25: every rectangle of a generated layout whose constraint has an
\* aspect has a height over width within 0.001 of it, the rectangle being
\* what is left after the margin and the rounding to pixels
C25_AspectKept ==
  \A x \in EntriesOf(Generated) :
    HasAspect(AspectOf(x)) =>
      /\ x.entry.size.width > 0
      /\ 1000 * Abs(x.entry.size.height * AspectOf(x).d - AspectOf(x).n * x.entry.size.width)
           <= x.entry.size.width * AspectOf(x).d

\* the packing of the components of a device group of the context, as
\* runLayout asks for it
PackingOf(group) ==
  With([devicelist \in {getGroupDevices(ctx, group.id)} |->
  With([regions \in {buildRegionNodeTree(ctx, devicelist)} |->
  _pack(regions, buildComponentList(ctx, dmapp, devicelist, regions, group.type).componentlist,
        group.type = "mixed")])])

\* C26: in the packing of a generated layout every attempt to place a
\* rectangle that failed left the node list of the packer exactly as it was
\* before the attempt
C26_FailedAttemptUndone ==
  last.kind = "generate" =>
    \A g \in Range(getDeviceGroups(ctx)) : PackingOf(g).restored

\* C27: when the last request destroyed a component and evaluated the
\* layout, and the component was not inited again, the component is in no
\* entry of the stored layout and in no create or update message pushed
C27_DestroyedIsGone ==
  last.kind = "transaction" /\ last.evaluated =>
    \A id \in Range(last.t.destroyList) :
      ~Known(id) =>
        /\ id \notin PlacedIds(layouts)
        /\ \A i \in DOMAIN pushed :
             pushed[i].kind \in {"create", "update"} =>
               \A k \in DOMAIN pushed[i].components : pushed[i].components[k].componentId # id

\* requests that change the context and evaluate the layout have arrived,
\* no other, and each has run to its end
Completed ==
  /\ inflight # <<>>
  /\ \A i \in DOMAIN inflight : inflight[i].kind = "region" /\ inflight[i].pc = "done"

\* the entries of a layout that have a position and a size
Visible(layout) == {x \in EntriesOf(layout) : x.entry.hasSize /\ ~IsHidden(x.entry)}

\* C28: when every request that changed the context has run to its end, the
\* components the stored layout shows, and where, are those of the layout
\* generated from the context and the DMApp as they are then
C28_StoredIsCurrent ==
  Completed => Visible(layouts) = Visible(persistLayout(genLayout(LayoutGenerator, ctx, dmapp)))

\* C29: no entry of a layout an evaluation generated, stored or pushed has
\* a size while its component is inited and not started
C29_InitedHasNoSize ==
  /\ \A i \in DOMAIN inflight :
       inflight[i].kind = "region" =>
         \A x \in EntriesOf(inflight[i].generated) \cup EntriesOf(inflight[i].layout) :
           x.entry.startTime = NoTime => ~x.entry.hasSize
  /\ \A x \in EntriesOf(layouts) : x.entry.startTime = NoTime => ~x.entry.hasSize
  /\ \A m \in DOMAIN pushed :
       pushed[m].kind = "update" =>
         \A k \in DOMAIN pushed[m].components :
           pushed[m].components[k].startTime = NoTime => ~pushed[m].components[k].hasSize

C14_OneEvaluation ==
  Cardinality({i \in DOMAIN inflight : inflight[i].kind = "region" /\ inflight[i].pc = "persist"}) <= 1

IsStopped(c) == c.stopTime # NoTime /\ ~c.visible

\* C16: a component that was stopped before a transaction is not started
\* by it: where the DMApp still has it, it is not visible
C16_StoppedNotStarted ==
  last.kind = "transaction" =>
    \A i \in DOMAIN last.before :
      IsStopped(last.before[i]) =>
        \A j \in DOMAIN dmapp.components :
          dmapp.components[j].componentId = last.before[i].componentId => ~dmapp.components[j].visible

\* the components a transaction names in a start, stop, update or destroy
NamedBy(t) ==
  Range(t.startList) \cup Range(t.stopList) \cup Range(t.destroyList) \cup Range(Ids(t.updateList))

\* C17: a transaction with a start, stop, update or destroy of a component
\* that the DMApp does not have, and that the transaction does not init,
\* changes neither the DMApp nor the stored layout
C17_UnknownChangesNothing ==
  [][(last'.kind = "transaction" /\ \E id \in NamedBy(last'.t) :
        /\ getComponent(dmapp, id) = 0
        /\ id \notin Range(Ids(last'.t.initList)))
      => dmapp' = dmapp /\ layouts' = layouts]_vars

\* C12: the second evaluation of unchanged inputs, with the layout of the
\* first as the previous one, stores the same layout and pushes nothing
C12_SecondIsSame ==
  last.kind = "evaluate" /\ last.evaluated /\ now = 2 => layouts = last.prevLayout /\ pushed = <<>>

\* the override of the component stored under the key, -1 if none
OverrideAt(c, devtype, key) == c.priorityOverrides[devtype].priorities[key]

\* the first override in the order device, group, context, else the
\* priority of the constraint
FirstOverride(c, device, devtype) ==
  IF OverrideAt(c, devtype, device.deviceId) # -1 THEN OverrideAt(c, devtype, device.deviceId)
  ELSE IF OverrideAt(c, devtype, device.group) # -1 THEN OverrideAt(c, devtype, device.group)
  ELSE IF OverrideAt(c, devtype, "context") # -1 THEN OverrideAt(c, devtype, "context")
  ELSE getComponentConstraints(dmapp, c.constraintId, devtype = "communal").priority

\* C18: the priority of every component on every device is the first
\* override that exists in the order device, group, context, else the
\* priority of the constraint
C18_FirstOverrideWins ==
  \A i \in DOMAIN dmapp.components :
    \A d \in DOMAIN ctx.devices :
      getPriority(dmapp, dmapp.components[i], ctx.devices[d], "communal") =
        FirstOverride(dmapp.components[i], ctx.devices[d], "communal")

\* the components of the constraint whose componentDependency names a
DependsOnA ==
  {dmapp.components[i].componentId :
     i \in {k \in DOMAIN dmapp.components :
              dmapp.components[k].constraintId = "caption" /\ dmapp.components[k].componentId # "a"}}

\* C20: a component that depends on a component that the generated layout
\* does not place is reported as not placed with the status noDependent
C20_NoDependentReported ==
  /\ last.kind = "generate" /\ ~Generated.err
  /\ ComponentOf("a").constraintId # "caption" /\ "a" \notin PlacedIds(Generated)
  => \A id \in DependsOnA :
      id \notin PlacedIds(Generated) /\ id \in NotPlacedAs(Generated, {"noDependent"})

\* the minimum size of the component's constraint fits the display of a
\* device of the context
FitsAtMinSize(id) ==
  \E d \in DOMAIN ctx.devices :
    With([minSize \in {ConstraintOn(id, ctx.devices[d].deviceId).minSize} |->
    minSize.width <= ctx.devices[d].caps.displayWidth /\ minSize.height <= ctx.devices[d].caps.displayHeight])

\* the first component has the higher priority on every device
HigherOnAllDevices(idA, idB) ==
  \A d \in DOMAIN ctx.devices :
    getPriority(dmapp, ComponentOf(idA), ctx.devices[d], "communal") >
      getPriority(dmapp, ComponentOf(idB), ctx.devices[d], "communal")

\* C19: when a component of lower priority is placed in a generated layout,
\* every component of higher priority on all devices is placed too, both
\* fitting a device at their minimum size
C19_PriorityMonotone ==
  last.kind = "generate" /\ ~Generated.err =>
    \A idA \in Range(Ids(dmapp.components)) :
      \A idB \in PlacedIds(Generated) :
        HigherOnAllDevices(idA, idB) /\ FitsAtMinSize(idA) /\ FitsAtMinSize(idB) =>
          idA \in PlacedIds(Generated)

\* what the consolidations of the packings of the generated layout merged
MergesOf == UNION {PackingOf(g).merges : g \in Range(getDeviceGroups(ctx))}

StatusesOf(layout, group, id) ==
  {layout.notPlaced[n].status :
     n \in {k \in DOMAIN layout.notPlaced :
              layout.notPlaced[k].group = group /\ id \in Range(layout.notPlaced[k].components)}}

\* C32: a generated layout reports no component as not placed under two
\* statuses in one device group
C32_OneStatus ==
  last.kind = "generate" =>
    \A g \in Range(getDeviceGroups(ctx)) :
      \A id \in Range(Ids(dmapp.components)) :
        Cardinality(StatusesOf(Generated, g.id, id)) <= 1

\* the rectangles of a pass that have a place: a width and a height
PlacedRects(rects) == SelectSeq(rects, LAMBDA r : r.width > 0 /\ r.height > 0)

\* C33: when pass three of the packing of a generated layout took its new
\* arrangement, the arrangement places at least as many rectangles as the
\* result it replaces and fills at least as much area
C33_ThirdPassNoWorse ==
  last.kind = "generate" =>
    \A g \in Range(getDeviceGroups(ctx)) :
      PackingOf(g).passThree.accepted =>
        /\ Len(PlacedRects(PackingOf(g).passThree.after)) >= Len(PlacedRects(PackingOf(g).passThree.before))
        /\ CmpArea(computeFillSpace(PlacedRects(PackingOf(g).passThree.after)),
                   computeFillSpace(PlacedRects(PackingOf(g).passThree.before))) >= 0

\* the first arrangement places more rectangles than the second, or as
\* many and leaves no more white space
AtLeastAsGood(rects1, rects2) ==
  \/ Len(PlacedRects(rects1)) > Len(PlacedRects(rects2))
  \/ /\ Len(PlacedRects(rects1)) = Len(PlacedRects(rects2))
     /\ CmpArea(computeFillSpace(PlacedRects(rects1)), computeFillSpace(PlacedRects(rects2))) >= 0

\* C34: when pass two of the packing of a generated layout made attempts,
\* the result it retains places the most rectangles of pass one and all
\* attempts, and of those that place as many it leaves the least white space
C34_BestAttemptRetained ==
  last.kind = "generate" =>
    \A g \in Range(getDeviceGroups(ctx)) :
      /\ AtLeastAsGood(PackingOf(g).retained, PackingOf(g).first)
      /\ \A i \in DOMAIN PackingOf(g).attempts :
           AtLeastAsGood(PackingOf(g).retained, PackingOf(g).attempts[i].rects)

\* the packing of the components of a device group by a packer whose
\* reduction rate was set to 1.0
PackingAtUnitRate(group) ==
  With([devicelist \in {getGroupDevices(ctx, group.id)} |->
  With([regions \in {buildRegionNodeTree(ctx, devicelist)} |->
  packWith(setReductionRate(NewPacker(regions, group.type = "mixed"), "unit"), regions,
           buildComponentList(ctx, dmapp, devicelist, regions, group.type).componentlist,
           group.type = "mixed")])])

\* C38: with the reduction rate 1.0 pass two of the packing of the
\* components makes one attempt at most
C38_SingleAttempt ==
  last.kind = "generate" =>
    \A g \in Range(getDeviceGroups(ctx)) : Len(PackingAtUnitRate(g).attempts) <= 1

\* the rectangles of the components of a device group in the order in
\* which pass one of the packer takes them
AttemptOrder(group) ==
  With([devicelist \in {getGroupDevices(ctx, group.id)} |->
  With([regions \in {buildRegionNodeTree(ctx, devicelist)} |->
  sortRects(init(buildComponentList(ctx, dmapp, devicelist, regions, group.type).componentlist),
            regions, FALSE)])])

\* C36: in the order in which the packer takes the rectangles of a device
\* group no rectangle comes before one of strictly higher priority
C36_PriorityOrder ==
  last.kind = "generate" =>
    \A g \in Range(getDeviceGroups(ctx)) :
      \A j \in DOMAIN AttemptOrder(g) :
        \A i \in 1..(j - 1) :
          AttemptOrder(g)[i].constraints.priority >= AttemptOrder(g)[j].constraints.priority

\* the components a layout has on some device with a position: the entry
\* of a component that was only inited has none
OnSomeDevice(layout) ==
  UNION {{layout.devices[d].components[k].componentId :
            k \in {n \in DOMAIN layout.devices[d].components : layout.devices[d].components[n].hasPosition}} :
           d \in DOMAIN layout.devices}

\* the components whose status "started" the last request sent to the
\* timeline service
ReportedStarted ==
  {last.statuses[k].componentId : k \in {i \in DOMAIN last.statuses : last.statuses[i].status = "started"}}

\* C37: after the evaluation of a transaction with starts, every started
\* component of the DMApp that has a position on no device, in the generated
\* layout and in the stored one, has had its status sent to the timeline
\* service by handleNonPlaced
C37_UnplacedReported ==
  (last.kind = "transaction" /\ last.evaluated /\ last.t.startList # <<>>) =>
    \A c \in Range(last.t.startList) :
      (/\ getComponent(dmapp, c) # 0
       /\ c \notin OnSomeDevice(last.generated)
       /\ c \notin OnSomeDevice(layouts)) =>
        c \in ReportedStarted

\* the DMApp that holds the component
DMAppOfComponent(id) == dmapp.components[getComponent(dmapp, id)].DMAppId

\* C39: in a context that holds more than one DMApp, every component listed
\* in a create message of an evaluation belongs to the DMApp the message
\* names for it
C39_CreateNamesOwnDMApp ==
  (last.kind = "evaluate" /\ Len(dmapp.ids) > 1) =>
    \A i \in DOMAIN pushed :
      pushed[i].kind = "create" =>
        \A k \in DOMAIN pushed[i].components :
          pushed[i].components[k].DMAppId = DMAppOfComponent(pushed[i].components[k].componentId)


====
